---- MODULE Spec2Model ----
(***************************************************************************)
(* Model of the citation-graph record-linkage core:                        *)
(*   - combine_serp.py : process_authors, process_articles and the two     *)
(*     edge builders, run over a raw SERP batch and the existing tables;   *)
(*   - neo4j/loader.py : the batch_add_* Cypher statements acting on a     *)
(*     property graph;                                                     *)
(*   - data_sources/utils.py : save_checkpoint writing the five checkpoint *)
(*     files one after the other.                                          *)
(* Strings that the code inspects character by character (author names,    *)
(* titles) are sequences of one-character strings; identifiers are plain   *)
(* strings.  None / NaN is the value None.                                 *)
(***************************************************************************)
EXTENDS Integers, Sequences, FiniteSets, TLC

None == "None"

\* the null of a title column: a sequence, so that it compares with the titles
NullTitle == <<None>>

(***************************************************************************)
(* Bounds of the model.                                                    *)
(***************************************************************************)
MaxNew == 2
MaxExisting == 2
MaxExistingArticles == 2
MaxCitations == 1
MaxExistingEdges == 1
MaxArticles == 2
MaxLoads == 2
MaxProcessed == 3
MaxItems == 2
MaxItemCitations == 2
MaxPositions == 2
MaxCalls == 2
MaxPad == 31
MaxRetry == 5

(***************************************************************************)
(* Generic helpers.                                                        *)
(***************************************************************************)
Range(s) == {s[i] : i \in DOMAIN s}

Perms(S) == {f \in [1..Cardinality(S) -> S] : \A i, j \in 1..Cardinality(S) : f[i] = f[j] => i = j}

Max2(a, b) == IF a >= b THEN a ELSE b

(***************************************************************************)
(* Characters.  re's \w covers letters, digits and the underscore, \s the  *)
(* white space; everything else is removed by re.sub(r"[^\w\s]", "", .).   *)
(***************************************************************************)
LowerLetters == {"a", "b", "c", "d", "e", "f"}
UpperLetters == {"A", "B", "C", "D", "E", "F"}
Whitespace == {" "}

lower(c) ==
    CASE c = "A" -> "a" [] c = "B" -> "b" [] c = "C" -> "c"
      [] c = "D" -> "d" [] c = "E" -> "e" [] c = "F" -> "f"
      [] OTHER -> c

IsWordChar(c) == c \in LowerLetters \cup UpperLetters \cup {"_"}

str_lower(s) == [i \in DOMAIN s |-> lower(s[i])]

\* re.sub(r"[^\w\s]", "", s)
RemoveSpecial(s) == SelectSeq(s, LAMBDA c : IsWordChar(c) \/ c \in Whitespace)

RECURSIVE lstrip(_)
lstrip(s) == IF s # <<>> /\ Head(s) \in Whitespace THEN lstrip(Tail(s)) ELSE s

RECURSIVE rstrip(_)
rstrip(s) ==
    IF s # <<>> /\ s[Len(s)] \in Whitespace THEN rstrip(SubSeq(s, 1, Len(s) - 1)) ELSE s

strip(s) == rstrip(lstrip(s))

\* str.split(): the maximal runs of non-white-space characters, in order.
RECURSIVE split_acc(_, _, _)
split_acc(s, cur, acc) ==
    IF s = <<>> THEN (IF cur = <<>> THEN acc ELSE Append(acc, cur))
    ELSE IF Head(s) \in Whitespace
         THEN split_acc(Tail(s), <<>>, IF cur = <<>> THEN acc ELSE Append(acc, cur))
         ELSE split_acc(Tail(s), Append(cur, Head(s)), acc)

split(s) == split_acc(s, <<>>, <<>>)

(***************************************************************************)
(* combine_serp.py: the identity normalizer.                               *)
(***************************************************************************)
\* the same steps with the strip first: surrounding white space that only
\* shows once the special characters are gone is kept
normalize_author_name_strip_first(name) ==
    IF name = None THEN <<>> ELSE RemoveSpecial(strip(str_lower(name)))

\* lines 45-47
normalize_author_name(name) ==
    IF name = None THEN <<>> ELSE strip(RemoveSpecial(str_lower(name)))

get_initials(name) == [i \in DOMAIN split(name) |-> split(name)[i][1]]

get_last_name(name) == IF split(name) = <<>> THEN <<>> ELSE split(name)[Len(split(name))]

(***************************************************************************)
(* rapidfuzz.fuzz.ratio: the normalized Indel similarity,                  *)
(*   100 * (1 - (len1 + len2 - 2 * LCS) / (len1 + len2)),                  *)
(* 100 for two empty strings.  The score is kept as the exact fraction     *)
(* num / den (of 100-ths), compared by cross multiplication.               *)
(***************************************************************************)
RECURSIVE lcs_len(_, _)
lcs_len(s, t) ==
    IF s = <<>> \/ t = <<>> THEN 0
    ELSE IF Head(s) = Head(t) THEN 1 + lcs_len(Tail(s), Tail(t))
    ELSE Max2(lcs_len(Tail(s), t), lcs_len(s, Tail(t)))

fuzz_ratio(s, t) ==
    IF Len(s) + Len(t) = 0 THEN [num |-> 100, den |-> 1]
    ELSE [num |-> 200 * lcs_len(s, t), den |-> Len(s) + Len(t)]

ScoreGT(a, b) == a.num * b.den > b.num * a.den
ScoreEQ(a, b) == a.num * b.den = b.num * a.den
ScoreGE(a, b) == ~ScoreGT(b, a)

score_cutoff == 90
AtLeastCutoff(sc) == sc.num >= score_cutoff * sc.den

(***************************************************************************)
(* rapidfuzz.process.extractOne(query, choices, scorer=fuzz.ratio,         *)
(* score_cutoff=90): the choices are scanned in order; a choice replaces   *)
(* the current result when its score reaches the cutoff and is strictly    *)
(* higher than the score of the current result.  The value is the index of *)
(* the chosen element in choices, 0 for "no result" (None).                *)
(***************************************************************************)
RECURSIVE extractOne_scan_lastmax(_, _, _, _)
extractOne_scan_lastmax(query, choices, i, best) ==
    IF i > Len(choices) THEN best
    ELSE LET sc == fuzz_ratio(query, choices[i])
         IN  IF AtLeastCutoff(sc)
                /\ (best = 0 \/ ScoreGE(sc, fuzz_ratio(query, choices[best])))
             THEN extractOne_scan_lastmax(query, choices, i + 1, i)
             ELSE extractOne_scan_lastmax(query, choices, i + 1, best)

RECURSIVE extractOne_scan(_, _, _, _)
extractOne_scan(query, choices, i, best) ==
    IF i > Len(choices) THEN best
    ELSE LET sc == fuzz_ratio(query, choices[i])
         IN  IF AtLeastCutoff(sc)
                /\ (best = 0 \/ ScoreGT(sc, fuzz_ratio(query, choices[best])))
             THEN extractOne_scan(query, choices, i + 1, i)
             ELSE extractOne_scan(query, choices, i + 1, best)

extractOne(query, choices) == extractOne_scan(query, choices, 1, 0)

(***************************************************************************)
(* combine_serp.py, process_authors.                                       *)
(* data is the raw batch: a sequence of items, each with its citations,    *)
(* each citation with its authors (author_id, name).                       *)
(***************************************************************************)
\* lines 73-77: the set of (author_id, name) pairs of all citations
batch_authors(d) ==
    UNION { UNION { { [google_scholar_id |-> a.author_id, name |-> a.name]
                      : a \in Range(c.authors) }
                    : c \in Range(d[k].citations) }
            : k \in DOMAIN d }

\* lines 101-103 without the filter: every existing row is a candidate
potential_matches_all(new_author, existing) == [i \in DOMAIN existing |-> i]

\* lines 84-91 and 101-103: the indices (in table order) of the existing rows
\* that share the initials or the last name of the new author
potential_matches(new_author, existing) ==
    LET nn == normalize_author_name(new_author.name)
        InBlock(i) ==
            LET en == normalize_author_name(existing[i].name)
            IN  \/ get_initials(en) = get_initials(nn)
                \/ get_last_name(en) = get_last_name(nn)
    IN  SelectSeq([i \in DOMAIN existing |-> i], InBlock)

\* lines 105-116: the index in existing of the row the new author is merged
\* into, 0 when there is none
match_index(new_author, existing) ==
    LET pm == potential_matches(new_author, existing)
        choices == [k \in DOMAIN pm |-> normalize_author_name(existing[pm[k]].name)]
        m == extractOne(normalize_author_name(new_author.name), choices)
    IN  IF pm = <<>> \/ m = 0 THEN 0 ELSE pm[m]

Truthy(x) == x # None /\ x # ""

\* lines 118-123 and 133-140: the row appended for one new author
merged_row(new_author, existing) ==
    LET m == match_index(new_author, existing)
    IN  IF m # 0
        THEN [uid |-> existing[m].uid,
              orcid_id |-> existing[m].orcid_id,
              name |-> existing[m].name,
              google_scholar_id |->
                  IF Truthy(new_author.google_scholar_id)
                  THEN new_author.google_scholar_id
                  ELSE existing[m].google_scholar_id]
        ELSE [uid |-> new_author.google_scholar_id,
              orcid_id |-> None,
              name |-> new_author.name,
              google_scholar_id |-> new_author.google_scholar_id]

\* DataFrame.drop_duplicates(subset="uid", keep="first")
RECURSIVE drop_duplicates_uid_acc(_, _, _)
drop_duplicates_uid_acc(rows, seen, acc) ==
    IF rows = <<>> THEN acc
    ELSE IF Head(rows).uid \in seen
         THEN drop_duplicates_uid_acc(Tail(rows), seen, acc)
         ELSE drop_duplicates_uid_acc(Tail(rows), seen \cup {Head(rows).uid},
                                      Append(acc, Head(rows)))

drop_duplicates_uid(rows) == drop_duplicates_uid_acc(rows, {}, <<>>)

\* lines 94-170.  order is the sequence in which the rows of authors_df are
\* visited: authors_df is built from a Python set, whose iteration order is
\* not fixed by the program.  raised: with no row at all merged_df has no
\* uid column and drop_duplicates at line 161 raises KeyError.
process_authors(order, existing) ==
    LET idx == [i \in DOMAIN order |-> match_index(order[i], existing)]
        new_rows == [i \in DOMAIN order |-> merged_row(order[i], existing)]
        matched_existing_authors == {existing[idx[i]].uid : i \in {j \in DOMAIN order : idx[j] # 0}}
        unmatched == SelectSeq(existing, LAMBDA e : e.uid \notin matched_existing_authors)
        merged_rows == new_rows \o unmatched
        merged_df == drop_duplicates_uid(merged_rows)
    IN  [raised |-> merged_rows = <<>>,
         match_idx |-> idx,
         candidates |-> [i \in DOMAIN order |-> potential_matches(order[i], existing)],
         matched |-> matched_existing_authors,
         merged_rows |-> merged_rows,
         merged_df |-> merged_df,
         new_entries |-> SelectSeq(merged_df, LAMBDA r : r.orcid_id = None)]

(***************************************************************************)
(* combine_serp.py, process_articles.                                      *)
(***************************************************************************)
\* line 40: re.sub(r"[^\w\s]", "", title.lower()), without any strip
normalize_title_serp(title) == RemoveSpecial(str_lower(title))

\* code points order the characters when pandas sorts the join keys
CharOrder ==
    <<" ", "'", "-", ".", "A", "B", "C", "D", "E", "F", "_", "a", "b", "c", "d", "e", "f">>

CharCode(c) == CHOOSE i \in DOMAIN CharOrder : CharOrder[i] = c

RECURSIVE LexLess(_, _)
LexLess(s, t) ==
    IF t = <<>> THEN FALSE
    ELSE IF s = <<>> THEN TRUE
    ELSE IF Head(s) = Head(t) THEN LexLess(Tail(s), Tail(t))
    ELSE CharCode(Head(s)) < CharCode(Head(t))

RECURSIVE SortedKeys(_)
SortedKeys(S) ==
    IF S = {} THEN <<>>
    ELSE LET m == CHOOSE x \in S : \A y \in S : y = x \/ LexLess(x, y)
         IN  <<m>> \o SortedKeys(S \ {m})

\* pydantic: uid and title are required strings of Article
ArticleValid(uid, title) == uid # None /\ title # NullTitle

\* lines 189-204: the Article built for a batch item.  Booleans are the
\* strings "True" / "False"; an optional count is <<>> (None) or <<n>>.
item_article(item) ==
    [uid |-> item.article_id, title |-> item.title, source |-> "serp",
     is_bbp |-> "True", is_published |-> "True", publication_date |-> None,
     abstract |-> None, doi |-> None, pmid |-> None, europmc_id |-> None,
     google_scholar_id |-> item.article_id, url |-> item.url, isbns |-> None,
     citations |-> item.total_citations]

\* lines 212-227: the Article built for a citation of an item
citation_article(c) ==
    [uid |-> c.result_id, title |-> c.title, source |-> "serp",
     is_bbp |-> "False", is_published |-> "True", publication_date |-> None,
     abstract |-> None, doi |-> None, pmid |-> None, europmc_id |-> None,
     google_scholar_id |-> c.result_id, url |-> c.link, isbns |-> None,
     citations |-> c.cited_by]

\* lines 208-229: the citations of one item, skipping processed ids
RECURSIVE serp_citations(_, _, _)
serp_citations(cs, processed, acc) ==
    IF cs = <<>> THEN [articles |-> acc, processed |-> processed]
    ELSE IF Head(cs).result_id \in processed
         THEN serp_citations(Tail(cs), processed, acc)
         ELSE serp_citations(Tail(cs), processed \cup {Head(cs).result_id},
                             Append(acc, citation_article(Head(cs))))

\* lines 186-229: the list of Articles of the batch, in the order built
RECURSIVE serp_articles(_, _, _)
serp_articles(d, processed, acc) ==
    IF d = <<>> THEN acc
    ELSE LET it == Head(d)
             cs == serp_citations(it.citations, processed \cup {it.article_id},
                                  Append(acc, item_article(it)))
         IN  serp_articles(Tail(d), cs.processed, cs.articles)

\* lines 189 and 212: a record pydantic rejects makes the constructor raise.
\* Only the Articles the loop builds are validated: a citation whose
\* result_id is among the processed ids is skipped at line 209 before line
\* 212.  Up to the first rejected record the list is the list the code
\* builds, so the code raises exactly when the list holds a rejected record.
batch_valid(d) ==
    \A a \in Range(serp_articles(d, {}, <<>>)) : ArticleValid(a.uid, a.title)

\* DataFrame.drop_duplicates(subset="normalized_title"), keep="first"
RECURSIVE drop_duplicates_title(_, _, _)
drop_duplicates_title(rows, seen, acc) ==
    IF rows = <<>> THEN acc
    ELSE LET k == normalize_title_serp(Head(rows).title)
         IN  IF k \in seen THEN drop_duplicates_title(Tail(rows), seen, acc)
             ELSE drop_duplicates_title(Tail(rows), seen \cup {k}, Append(acc, Head(rows)))

\* line 263: strip().lower().replace('"', "").replace("'", "").strip()
processed_title(t) ==
    strip(SelectSeq(str_lower(strip(t)), LAMBDA c : c \notin {"\"", "'"}))

columns_from_existing ==
    {"is_bbp", "is_published", "publication_date", "url", "abstract", "doi", "pmid",
     "europmc_id", "isbns"}

\* the side of an outer-merge row that has no partner: every column is NaN
AbsentRow ==
    [uid |-> None, title |-> NullTitle, source |-> None, is_bbp |-> None,
     is_published |-> None, publication_date |-> None, abstract |-> None,
     doi |-> None, pmid |-> None, europmc_id |-> None, google_scholar_id |-> None,
     url |-> None, isbns |-> None, citations |-> <<>>]

\* lines 294-304: the existing value when it is not null, else the new one
PreferExisting(l, r, f) ==
    IF r[f] # None THEN r[f]
    ELSE IF l[f] # None THEN l[f]
    ELSE None

\* lines 252-257
combined_source(l, r) ==
    IF l.source # None /\ r.source # None THEN "serp_" \o r.source
    ELSE IF l.source # None THEN l.source
    ELSE r.source

\* lines 269-279
combined_citations(l, r) ==
    IF r.citations # <<>> /\ l.citations # <<>>
    THEN Max2(r.citations[1], l.citations[1])
    ELSE IF l.citations # <<>> THEN l.citations[1]
    ELSE IF r.citations # <<>> THEN r.citations[1]
    ELSE 0

\* lines 260-266
combined_title(l, r) ==
    IF r.title # NullTitle THEN strip(r.title)
    ELSE IF l.title # NullTitle THEN processed_title(l.title)
    ELSE NullTitle

\* lines 250-304 and 317: the values of one row of merged_df; l holds the
\* _serp columns of the row, r its _existing columns
merge_article_row(l, r, key) ==
    [uid |-> IF r.uid # None THEN r.uid ELSE l.uid,
     title |-> combined_title(l, r),
     source |-> combined_source(l, r),
     is_bbp |-> PreferExisting(l, r, "is_bbp"),
     is_published |-> PreferExisting(l, r, "is_published"),
     publication_date |-> PreferExisting(l, r, "publication_date"),
     abstract |-> PreferExisting(l, r, "abstract"),
     doi |-> PreferExisting(l, r, "doi"),
     pmid |-> PreferExisting(l, r, "pmid"),
     europmc_id |-> PreferExisting(l, r, "europmc_id"),
     google_scholar_id |-> l.google_scholar_id,
     url |-> PreferExisting(l, r, "url"),
     isbns |-> PreferExisting(l, r, "isbns"),
     citations |-> combined_citations(l, r),
     normalized_title |-> key]

\* lines 239-245: pd.merge(articles_df, existing_db, on="normalized_title",
\* how="outer"): the rows of the result, join keys in sorted order
outer_merge_title(left, right) ==
    LET keys == SortedKeys({normalize_title_serp(left[i].title) : i \in DOMAIN left}
                           \cup {normalize_title_serp(right[i].title) : i \in DOMAIN right})
        L(k) == SelectSeq(left, LAMBDA x : normalize_title_serp(x.title) = k)
        R(k) == SelectSeq(right, LAMBDA x : normalize_title_serp(x.title) = k)
        Pairs(k) ==
            IF L(k) = <<>>
            THEN [j \in DOMAIN R(k) |-> [l |-> AbsentRow, r |-> R(k)[j], key |-> k]]
            ELSE IF R(k) = <<>>
            THEN [i \in DOMAIN L(k) |-> [l |-> L(k)[i], r |-> AbsentRow, key |-> k]]
            ELSE [n \in 1..(Len(L(k)) * Len(R(k))) |->
                     [l |-> L(k)[((n - 1) \div Len(R(k))) + 1],
                      r |-> R(k)[((n - 1) % Len(R(k))) + 1],
                      key |-> k]]
        Cat[n \in 0..Len(keys)] == IF n = 0 THEN <<>> ELSE Cat[n - 1] \o Pairs(keys[n])
    IN  Cat[Len(keys)]

DropField(r) ==
    [f \in (DOMAIN r) \ {"normalized_title"} |-> r[f]]

\* lines 186-331.  existing_db is [gsid_column, rows]: gsid_column tells
\* whether the table read from articles_before_serp.csv has a
\* google_scholar_id column (a table written from Article.model_dump has
\* one, a table with the columns of dataframe.ARTICLE_COLUMN_DTYPES has
\* none).  With the column on both sides pd.merge suffixes it and no
\* google_scholar_id column is left for line 319.
\* raised: an exception leaves the function (pydantic ValidationError at lines
\* 189/212, KeyError on an empty batch at line 232, KeyError at line 319 when
\* a column of columns_to_keep was never written).
process_articles(d, existing_db) ==
    LET existing == existing_db.rows
        articles_df == drop_duplicates_title(serp_articles(d, {}, <<>>), {}, <<>>)
        pairs == outer_merge_title(articles_df, existing)
        merged_df == [i \in DOMAIN pairs |->
                         merge_article_row(pairs[i].l, pairs[i].r, pairs[i].key)]
        never_written == {f \in columns_from_existing :
                              \A i \in DOMAIN merged_df : merged_df[i][f] = None}
        raised == \/ d = <<>>
                  \/ ~batch_valid(d)
                  \/ merged_df = <<>>
                  \/ never_written # {}
                  \/ existing_db.gsid_column
        final_rows == [i \in DOMAIN merged_df |-> DropField(merged_df[i])]
        serp_uids == {articles_df[i].uid : i \in DOMAIN articles_df}
        existing_uids == {existing[i].uid : i \in DOMAIN existing}
    IN  IF raised
        THEN [raised |-> TRUE, pairs |-> <<>>, merged_rows |-> <<>>, final_df |-> <<>>,
              new_entries |-> <<>>]
        ELSE [raised |-> FALSE,
              pairs |-> pairs,
              merged_rows |-> final_rows,
              final_df |-> drop_duplicates_uid(final_rows),
              new_entries |-> drop_duplicates_uid(
                  SelectSeq(final_rows,
                            LAMBDA r : r.uid \in serp_uids /\ r.uid \notin existing_uids))]

(***************************************************************************)
(* combine_serp.py, process_author_wrote_article and                       *)
(* process_article_cites_article.  An edge is a pair <<first key, second   *)
(* key>> of the two join columns.                                          *)
(***************************************************************************)
\* the identifiers of the tables, in the order pandas sorts them
IdOrder == <<"a1", "a2", "g1", "g2", "o1", "o2", "s1", "s2">>

IdCode(x) == CHOOSE i \in DOMAIN IdOrder : IdOrder[i] = x

EdgeLess(e, f) ==
    \/ IdCode(e[1]) < IdCode(f[1])
    \/ e[1] = f[1] /\ IdCode(e[2]) < IdCode(f[2])

RECURSIVE SortedEdges(_)
SortedEdges(S) ==
    IF S = {} THEN <<>>
    ELSE LET m == CHOOSE x \in S : \A y \in S : y = x \/ EdgeLess(x, y)
         IN  <<m>> \o SortedEdges(S \ {m})

\* pd.merge(left, right, on=[both columns], how="outer", indicator=True):
\* the key pairs in sorted order, one row for every combination of a left row
\* and a right row with the pair (a side without the pair counts once),
\* _merge telling which side had the pair
outer_merge_edges(left, right) ==
    LET keys == SortedEdges(Range(left) \cup Range(right))
        Count(t, k) == Cardinality({i \in DOMAIN t : t[i] = k})
        Rows(k) ==
            [j \in 1..(Max2(Count(left, k), 1) * Max2(Count(right, k), 1)) |->
                [edge |-> k,
                 merge |-> IF k \notin Range(right) THEN "left_only"
                           ELSE IF k \notin Range(left) THEN "right_only"
                           ELSE "both"]]
        Cat[n \in 0..Len(keys)] == IF n = 0 THEN <<>> ELSE Cat[n - 1] \o Rows(keys[n])
    IN  Cat[Len(keys)]

\* a table that keeps every row
drop_duplicates_edges_none(rows) == rows

\* DataFrame.drop_duplicates(subset=[both columns], keep="first")
drop_duplicates_edges(rows) ==
    LET Keep[n \in 0..Len(rows)] ==
            IF n = 0 THEN <<>>
            ELSE IF \E j \in 1..(n - 1) : rows[j].edge = rows[n].edge
                 THEN Keep[n - 1]
                 ELSE Append(Keep[n - 1], rows[n])
    IN  Keep[Len(rows)]

\* lines 379-398 and 427-447, shared by the two edge functions.  An empty
\* left frame has no columns and pd.merge raises KeyError.
merge_edge_tables(left, existing_db) ==
    LET merged_df == outer_merge_edges(left, existing_db)
        final_df == drop_duplicates_edges(merged_df)
        new_entries ==
            drop_duplicates_edges(SelectSeq(merged_df, LAMBDA r : r.merge = "left_only"))
    IN  IF left = <<>>
        THEN [raised |-> TRUE, final_df |-> <<>>, new_entries |-> <<>>]
        ELSE [raised |-> FALSE,
              final_df |-> [i \in DOMAIN final_df |-> final_df[i].edge],
              new_entries |-> [i \in DOMAIN new_entries |-> new_entries[i].edge]]

\* lines 359-364 and 369-374: one AuthorWroteArticle per listed author
authors_of(article_uid, authors) ==
    [i \in DOMAIN authors |-> <<authors[i].author_id, article_uid>>]

\* lines 367-374
RECURSIVE citations_awa(_)
citations_awa(cs) ==
    IF cs = <<>> THEN <<>>
    ELSE authors_of(Head(cs).result_id, Head(cs).authors) \o citations_awa(Tail(cs))

\* lines 353-374
RECURSIVE serp_author_wrote_article(_)
serp_author_wrote_article(d) ==
    IF d = <<>> THEN <<>>
    ELSE authors_of(Head(d).article_id, Head(d).authors)
         \o citations_awa(Head(d).citations)
         \o serp_author_wrote_article(Tail(d))

\* schemas.py lines 53-66: both fields of AuthorWroteArticle and of
\* ArticleCitesArticle are required strings; a null makes the constructor
\* raise ValidationError (lines 360, 370 and 418)
edges_valid(rows) == \A e \in Range(rows) : e[1] # None /\ e[2] # None

\* lines 353-398; the authors_df argument is never read
process_author_wrote_article(d, existing_db, authors_df) ==
    LET awa_list == serp_author_wrote_article(d)
    IN  IF edges_valid(awa_list)
        THEN merge_edge_tables(awa_list, existing_db)
        ELSE [raised |-> TRUE, final_df |-> <<>>, new_entries |-> <<>>]

\* lines 415-422
RECURSIVE serp_article_cites_article(_)
serp_article_cites_article(d) ==
    IF d = <<>> THEN <<>>
    ELSE [i \in DOMAIN Head(d).citations |->
             <<Head(d).citations[i].result_id, Head(d).article_id>>]
         \o serp_article_cites_article(Tail(d))

\* lines 415-447
process_article_cites_article(d, existing_db) ==
    LET aca_list == serp_article_cites_article(d)
    IN  IF edges_valid(aca_list)
        THEN merge_edge_tables(aca_list, existing_db)
        ELSE [raised |-> TRUE, final_df |-> <<>>, new_entries |-> <<>>]

(***************************************************************************)
(* Input domains of the author runs.                                       *)
(***************************************************************************)
NamePool ==
    << <<"a", "b", " ", "c", "d">>,
       <<"a", "b", " ", "c", "d", "e">>,
       <<"a", "b", " ", "c", "d", "e", "f">>,
       <<"a", "b", "c", "d", "e">>,
       <<"A", "b", " ", "C", "d", ".">> >>

\* the (author_id, name) records a SERP citation can carry
SerpAuthorPool ==
    [k \in 1..(2 * Len(NamePool)) |->
        [author_id |-> IF k <= Len(NamePool) THEN "g1" ELSE "g2",
         name |-> NamePool[((k - 1) % Len(NamePool)) + 1]]]

IncreasingSeqs(n, maxLen) ==
    UNION { {f \in [1..l -> 1..n] : \A i \in 1..l : \A j \in 1..l : i < j => f[i] < f[j]}
            : l \in 0..maxLen }

SerpAuthorLists ==
    { [i \in DOMAIN f |-> SerpAuthorPool[f[i]]] : f \in IncreasingSeqs(Len(SerpAuthorPool), MaxNew) }

\* rows of an existing authors table: ORCID authors (uid = orcid_id) and
\* authors known by their Google Scholar id only (uid = google_scholar_id)
ExistingAuthorRows ==
    { [uid |-> u, orcid_id |-> u, name |-> NamePool[n], google_scholar_id |-> None]
      : u \in {"o1", "o2"}, n \in DOMAIN NamePool }
    \cup
    { [uid |-> "g1", orcid_id |-> None, name |-> NamePool[n], google_scholar_id |-> "g1"]
      : n \in DOMAIN NamePool }

ExistingAuthorTables ==
    UNION { {t \in [1..l -> ExistingAuthorRows] :
                \A i \in 1..l : \A j \in 1..l : t[i].uid = t[j].uid => i = j}
            : l \in 0..MaxExisting }

\* one SERP item whose only citation carries the given authors
AuthorBatch(authors) ==
    << [article_id |-> "s1", title |-> <<"a">>, url |-> None, total_citations |-> <<>>,
        authors |-> <<>>,
        citations |-> << [result_id |-> "s2", title |-> <<"b">>, link |-> None,
                          cited_by |-> <<0>>, authors |-> authors] >>] >>

(***************************************************************************)
(* Input domains of the article runs.                                      *)
(***************************************************************************)
TitlePool ==
    << <<"a", "b">>, <<"A", "b", ".">>, <<"c", "d">>, <<" ", "a", "b">>, <<"C", "\"", "d">> >>

\* an existing row with every optional column filled
FullArticle(uid, title, source, citations) ==
    [uid |-> uid, title |-> title, source |-> source, is_bbp |-> "False",
     is_published |-> "False", publication_date |-> "p1", abstract |-> "x1",
     doi |-> "d1", pmid |-> "m1", europmc_id |-> "e1", url |-> "u1",
     isbns |-> "i1", citations |-> citations]

\* the same row without a url
NoUrlArticle(uid, title, source, citations) ==
    [FullArticle(uid, title, source, citations) EXCEPT !.url = None]

\* a row with a doi and nothing else
BareArticle(uid, title, source, citations) ==
    [uid |-> uid, title |-> title, source |-> source, is_bbp |-> None,
     is_published |-> None, publication_date |-> None, abstract |-> None,
     doi |-> "d1", pmid |-> None, europmc_id |-> None, url |-> None,
     isbns |-> None, citations |-> citations]

ExistingArticleRows(uid) ==
    UNION { { FullArticle(uid, t, "europmc", <<5>>),
              BareArticle(uid, t, "europmc", <<5>>),
              BareArticle(uid, t, "csv", <<>>),
              NoUrlArticle(uid, t, "csv", <<>>),
              FullArticle(uid, t, "csv", <<20>>),
              FullArticle(uid, t, "serp", <<5>>),
              FullArticle(uid, t, "serp_europmc", <<20>>),
              NoUrlArticle(uid, t, "serp_csv", <<>>) }
            : t \in {TitlePool[1], TitlePool[3]} }

ArticleUids == <<"a1", "a2">>

\* tables of at most MaxExistingArticles rows, row i under the uid ArticleUids[i]
ExistingArticleTables ==
    UNION { { t \in [1..l -> UNION {ExistingArticleRows(ArticleUids[i]) : i \in 1..l}] :
                \A i \in 1..l : t[i].uid = ArticleUids[i] }
            : l \in 0..MaxExistingArticles }

ExistingArticleDbs ==
    [gsid_column : BOOLEAN, rows : ExistingArticleTables]

CitationIds == <<"s2", "s1">>

SerpCitations(authorLists) ==
    [result_id : Range(CitationIds), title : {TitlePool[1], TitlePool[3]}, link : {None},
     cited_by : {<<>>, <<3>>}, authors : authorLists]

SerpCitationLists(authorLists) ==
    UNION { { c \in [1..l -> SerpCitations(authorLists)] :
                \A i \in 1..l : c[i].result_id = CitationIds[i] }
            : l \in 0..MaxCitations }

ArticleBatches ==
    { <<it>> : it \in [article_id : {"s1"}, title : Range(TitlePool), url : {None, "u2"},
                       total_citations : {<<>>, <<12>>}, authors : {<<>>},
                       citations : SerpCitationLists({<<>>})] }

(***************************************************************************)
(* Input domains of the runs of main.                                      *)
(***************************************************************************)
CombineAuthorLists ==
    { <<>>,
      << [author_id |-> "g2", name |-> NamePool[1]] >>,
      << [author_id |-> "g1", name |-> NamePool[4]] >> }

CombineBatches ==
    { <<it>> : it \in [article_id : {"s1"}, title : {TitlePool[1], TitlePool[3]},
                       url : {None}, total_citations : {<<12>>},
                       authors : {<<>>, << [author_id |-> "g1", name |-> NamePool[1]] >>},
                       citations : SerpCitationLists(CombineAuthorLists)] }

CombineArticleDbs ==
    { db \in ExistingArticleDbs :
         /\ ~db.gsid_column
         /\ \A r \in Range(db.rows) :
               r = FullArticle(r.uid, r.title, "europmc", <<5>>) }

CombineAuthorTables ==
    { <<>>, << [uid |-> "o1", orcid_id |-> "o1", name |-> NamePool[1],
                google_scholar_id |-> None] >> }

\* edge tables of at most MaxExistingEdges rows between the given endpoints
EdgeTables(sources, targets) ==
    UNION { { t \in [1..l -> sources \X targets] :
                /\ \A i \in 1..l : t[i][1] # t[i][2]
                /\ \A i \in 1..l : \A j \in 1..l : i < j => EdgeLess(t[i], t[j]) }
            : l \in 0..MaxExistingEdges }

Uids(rows) == {rows[i].uid : i \in DOMAIN rows}

(***************************************************************************)
(* Input domains of the runs of main on batches as serp_fetch_citations.py *)
(* writes them: a citation whose title Google Scholar did not give carries *)
(* title null (lines 211-212 of that script), a result can be listed twice *)
(* among the citations of an item, and two items can carry the same id.    *)
(***************************************************************************)
TableCitations ==
    [result_id : {"s1", "s2"}, title : {TitlePool[1], TitlePool[3], NullTitle}, link : {None},
     cited_by : {<<3>>}, authors : {<<>>}]

TableCitationLists ==
    UNION { [1..l -> TableCitations] : l \in 0..MaxItemCitations }

TableItems(citationLists) ==
    [article_id : {"s1", "s2"}, title : {TitlePool[1], TitlePool[3]}, url : {None},
     total_citations : {<<12>>},
     authors : {<< [author_id |-> "g1", name |-> NamePool[1]] >>},
     citations : citationLists]

\* batches of at most MaxItems items; only the first item lists citations
TableBatches ==
    UNION { { b \in [1..l -> TableItems(TableCitationLists)] :
                  \A i \in 2..l : b[i].citations = <<>> }
            : l \in 1..MaxItems }

TableArticleDbs ==
    { [gsid_column |-> FALSE, rows |-> << FullArticle("a1", t, "europmc", <<5>>) >>]
      : t \in {TitlePool[1], TitlePool[3], <<"e", "f">>} }

TableAuthorTables ==
    { << [uid |-> "o1", orcid_id |-> "o1", name |-> NamePool[1],
          google_scholar_id |-> None] >> }

\* article_cites_article_before_serp.csv: empty, or one edge of an earlier run
TableCitationEdges == { <<>>, << <<"s2", "s1">> >> }

(***************************************************************************)
(* State.                                                                  *)
(***************************************************************************)
VARIABLES
    data,              \* the raw SERP batch (read_jsonl)
    existing_authors,  \* the existing authors table handed to the last run
    a_pc,              \* "start", "merged" (one run done), "rerun" (run on own output)
    a_order,           \* the order in which the last run visited the new authors
    a_res,             \* what the last run of process_authors computed
    existing_articles, \* articles_before_serp.csv
    existing_awa,      \* author_wrote_article_before_serp.csv
    existing_aca,      \* article_cites_article_before_serp.csv
    m_pc,              \* where main is: "start", "articles", "authors", "awa", "done", "raised"
    art_res,           \* what process_articles returned
    awa_res,           \* what process_author_wrote_article returned
    aca_res,           \* what process_article_cites_article returned
    dataset,           \* the tables integrate_batch.py reads
    constraints,       \* whether the database holds the constraints of create_constraints
    nodes,             \* the nodes of the graph
    edges,             \* the relationships of the graph
    next_id,           \* the id the next created node gets
    l_pc,              \* where main is: 0 not running, 1..6 the batch_process calls,
                       \* 7..9 the transactions of lines 157, 158 and 160, 10 ended
                       \* by the exception of create_constraints
    l_loads,           \* how many runs of main have loaded the dataset to the end
    ckpt_files,        \* the files of the checkpoint directory
    ck_prev,           \* the number of processed articles of the last complete checkpoint
    ck_new,            \* the number of processed articles of the checkpoint being saved
    ck_pc,             \* the file save_checkpoint writes next: 1..5, or 0 (not saving)
    ck_crashed,        \* the process was killed inside save_checkpoint
    ck_loaded,         \* what load_authors_state read after the restart
    orcid_record,      \* the affiliation positions of the ORCID record of one author
    aff_res,           \* what the last call of get_author_affiliations returned
    aff_first,         \* what its first call on the record returned
    aff_calls,         \* how many times it was called on the record
    nt_text,           \* the string handed to the normalizers
    nt_res,            \* what the normalizers returned for it, once and twice applied
    nt_pc,             \* "start", "done", or "off"
    retry_times,       \* the retry_times argument of get_with_waiting
    g_i,               \* the loop variable i of get_with_waiting
    g_pc,              \* where the call is: "get", "sleep", "returned", "raised", "off"
    g_log,             \* what the call did so far: GET outcomes and sleeps, in order
    g_result           \* the response returned or the exception raised

authVars == <<data, existing_authors, a_pc, a_order, a_res>>

mainVars == <<existing_articles, existing_awa, existing_aca, m_pc, art_res, awa_res, aca_res>>

loaderVars == <<dataset, constraints, nodes, edges, next_id, l_pc, l_loads>>

ckptVars == <<ckpt_files, ck_prev, ck_new, ck_pc, ck_crashed, ck_loaded>>

orcidVars == <<orcid_record, aff_res, aff_first, aff_calls>>

normVars == <<nt_text, nt_res, nt_pc>>

retryVars == <<retry_times, g_i, g_pc, g_log, g_result>>

\* ---- the state of the further data sources and scripts ----
VARIABLES
    europmc_id, \* the id of the article whose citations are fetched
    page_size, \* the page_size argument of fetch_citation_ids
    fc_responses, \* what Europe PMC answers for page 1, 2, ...: parsed or not, hitCount, ids
    fc_requested, \* the pages requested so far, in order
    fc_pages, \* the local variable pages
    citation_ids, \* the local variable citation_ids
    fc_pc, \* "first", "pages", "returned", or "off"
    fc_result  \* what fetch_citation_ids returned

fetchVars == <<europmc_id, page_size, fc_responses, fc_requested, fc_pages, citation_ids, fc_pc, fc_result>>

VARIABLES
    bbp_publications, \* the rows of the BBP publication tables: title, is_published
    europmc_elements, \* the articles the searches of Europe PMC return: id, title, orcid_ids
    citation_responses, \* for every Europe PMC id, what fetch_citation_ids returns
    serp_article_map, \* the titles that have a SERP json
    ga_pc, \* "read", "articles", "citations", "written", "done", "raised", or "off"
    uids, \* the list uids of main
    bbp_articles, \* the list articles of main
    europmc_ids, \* the list europmc_ids of main
    ga_next, \* the place of the loop of main in its list
    article_cites_article, \* the list article_cites_article of main
    author_wrote_article, \* the list author_wrote_article of main
    articles_csv, \* articles.csv
    article_cites_article_csv  \* article_cites_article.csv

gatherVars == <<bbp_publications, europmc_elements, citation_responses, serp_article_map, ga_pc, uids, bbp_articles, europmc_ids, ga_next, article_cites_article, author_wrote_article, articles_csv, article_cites_article_csv>>

VARIABLES
    csv_rows, \* the rows of the csv file that are BBP and published
    total_searches_left, \* the searches the SerpApi account has left
    rate_limit_reached, \* self.rate_limit_reached
    requests_made, \* self.requests_made
    articles_to_process, \* the list of process_csv: the places of the rows in the csv
    sp_k, \* the place of the loop of process_csv in articles_to_process
    sp_pc, \* "start", "row", "request", "search", "append", "done", or "off"
    sp_site, \* the caller of make_api_request: "id", "first", "page", or "none"
    all_citations, \* the local variable of get_citations, its length
    total_citations, \* the local variable of get_citations
    start, \* the local variable of get_citations
    results_jsonl, \* serp_citation_results.jsonl
    citations_files, \* the files citations_<article_id>.json, by row
    sp_run, \* the run of the script: 1..MaxRuns
    sp_cut  \* the rows whose fetch the rate limit cut short in this run

serpVars == <<csv_rows, total_searches_left, rate_limit_reached, requests_made, articles_to_process, sp_k, sp_pc, sp_site, all_citations, total_citations, start, results_jsonl, citations_files, sp_run, sp_cut>>

VARIABLES
    caller_author_ids, \* the list author_ids of the caller, get_author_ids
    local_author_ids, \* the list the name author_ids is bound to after line 325
    ids_rebound, \* whether line 325 has bound the name author_ids to a new list
    author_names, \* the argument author_names
    google_scholar_ids, \* the argument google_scholar_ids, null for a name without entry
    orcid_lookup, \* what get_orcidids_from_author_names returns for a name
    si_k, \* the place of the loop of set_author_ids in author_names
    si_pc  \* "loop", "returned", or "off"

idsVars == <<caller_author_ids, local_author_ids, ids_rebound, author_names, google_scholar_ids, orcid_lookup, si_k, si_pc>>

moreVars == <<fetchVars, gatherVars, serpVars, idsVars>>

\* ---- end of the further state ----

utilVars == <<orcidVars, normVars, retryVars, moreVars>>

vars == <<authVars, mainVars, loaderVars, ckptVars, utilVars>>

\* what the runs of combine_serp.py leave alone
outsideCombine == <<loaderVars, ckptVars, utilVars>>

\* what the loads of integrate_batch.py leave alone
outsideLoader == <<authVars, mainVars, ckptVars, utilVars>>

\* what save_checkpoint and load_authors_state leave alone
outsideCheckpoint == <<authVars, mainVars, loaderVars, utilVars>>

NoResult ==
    [raised |-> FALSE, match_idx |-> <<>>, candidates |-> <<>>, matched |-> {},
     merged_rows |-> <<>>, merged_df |-> <<>>, new_entries |-> <<>>]

NoArticles ==
    [raised |-> FALSE, pairs |-> <<>>, merged_rows |-> <<>>, final_df |-> <<>>,
     new_entries |-> <<>>]

NoEdges == [raised |-> FALSE, final_df |-> <<>>, new_entries |-> <<>>]

NoDataset ==
    [articles |-> <<>>, authors |-> <<>>, institutions |-> <<>>, article_cites_article |-> <<>>,
     author_affiliated_with_institution |-> <<>>, author_wrote_article |-> <<>>]

LoaderIdle ==
    /\ dataset = NoDataset
    /\ constraints = FALSE
    /\ nodes = {}
    /\ edges = {}
    /\ next_id = 1
    /\ l_pc = 0
    /\ l_loads = 0

CheckpointFiles ==
    <<"articles_processed", "author_affiliated_with_institution", "institutions", "authors",
      "author_wrote_article">>

NoFile == [state |-> "absent", rows |-> 0]

NotLoaded == [state |-> "none", rows |-> [f \in Range(CheckpointFiles) |-> 0]]

CheckpointIdle ==
    /\ ckpt_files = [f \in Range(CheckpointFiles) |-> NoFile]
    /\ ck_prev = 0
    /\ ck_new = 0
    /\ ck_pc = 0
    /\ ck_crashed = FALSE
    /\ ck_loaded = NotLoaded

NoAffiliations == [raised |-> FALSE, institutions |-> <<>>, affiliations |-> <<>>]

OrcidIdle ==
    /\ orcid_record = <<>>
    /\ aff_res = NoAffiliations
    /\ aff_first = NoAffiliations
    /\ aff_calls = 0

NotNormalized ==
    [title |-> <<>>, title_twice |-> <<>>, serp_title |-> <<>>, serp_title_twice |-> <<>>,
     author_name |-> <<>>, author_name_twice |-> <<>>]

NormIdle ==
    /\ nt_text = <<>>
    /\ nt_res = NotNormalized
    /\ nt_pc = "off"

RetryIdle ==
    /\ retry_times = 0
    /\ g_i = 0
    /\ g_pc = "off"
    /\ g_log = <<>>
    /\ g_result = "none"

\* ---- the further state when nothing runs ----
NotReturned == [kind |-> "pending", ids |-> <<>>]

FetchIdle ==
    /\ europmc_id = None
    /\ page_size = 1
    /\ fc_responses = <<>>
    /\ fc_requested = <<>>
    /\ fc_pages = 0
    /\ citation_ids = <<>>
    /\ fc_pc = "off"
    /\ fc_result = NotReturned

NotWritten == [written |-> FALSE, rows |-> <<>>]

GatherIdle ==
    /\ bbp_publications = <<>>
    /\ europmc_elements = {}
    /\ citation_responses = <<>>
    /\ serp_article_map = {}
    /\ ga_pc = "off"
    /\ uids = <<>>
    /\ bbp_articles = <<>>
    /\ europmc_ids = <<>>
    /\ ga_next = 1
    /\ article_cites_article = <<>>
    /\ author_wrote_article = <<>>
    /\ articles_csv = NotWritten
    /\ article_cites_article_csv = NotWritten

SerpIdle ==
    /\ csv_rows = <<>>
    /\ total_searches_left = 0
    /\ rate_limit_reached = FALSE
    /\ requests_made = 0
    /\ articles_to_process = <<>>
    /\ sp_k = 1
    /\ sp_pc = "off"
    /\ sp_site = "none"
    /\ all_citations = 0
    /\ total_citations = 0
    /\ start = 0
    /\ results_jsonl = <<>>
    /\ citations_files = <<>>
    /\ sp_run = 1
    /\ sp_cut = {}

IdsIdle ==
    /\ caller_author_ids = <<>>
    /\ local_author_ids = <<>>
    /\ ids_rebound = FALSE
    /\ author_names = <<>>
    /\ google_scholar_ids = <<>>
    /\ orcid_lookup = <<>>
    /\ si_k = 1
    /\ si_pc = "off"

MoreIdle == FetchIdle /\ GatherIdle /\ SerpIdle /\ IdsIdle

\* ---- end of the further idle state ----

UtilIdle == OrcidIdle /\ NormIdle /\ RetryIdle /\ MoreIdle

\* what the functions of orcid.py, the normalizers and get_with_waiting leave alone
outsideOrcid == <<authVars, mainVars, loaderVars, ckptVars, normVars, retryVars, moreVars>>

outsideNorm == <<authVars, mainVars, loaderVars, ckptVars, orcidVars, retryVars, moreVars>>

outsideRetry == <<authVars, mainVars, loaderVars, ckptVars, orcidVars, normVars, moreVars>>

CombineIdle ==
    /\ data = <<>>
    /\ existing_authors = <<>>
    /\ a_pc = "off"
    /\ a_order = <<>>
    /\ a_res = NoResult

MainIdle ==
    /\ existing_articles = [gsid_column |-> FALSE, rows |-> <<>>]
    /\ existing_awa = <<>>
    /\ existing_aca = <<>>
    /\ m_pc = "off"
    /\ art_res = NoArticles
    /\ awa_res = NoEdges
    /\ aca_res = NoEdges

\* ---- what the further functions leave alone ----
outsideFetch ==
    <<authVars, mainVars, loaderVars, ckptVars, orcidVars, normVars, retryVars, gatherVars, serpVars, idsVars>>

OutsideFetchIdle ==
    /\ CombineIdle
    /\ MainIdle
    /\ LoaderIdle
    /\ CheckpointIdle
    /\ OrcidIdle
    /\ NormIdle
    /\ RetryIdle
    /\ GatherIdle
    /\ SerpIdle
    /\ IdsIdle

outsideGather ==
    <<authVars, mainVars, loaderVars, ckptVars, orcidVars, normVars, retryVars, fetchVars, serpVars, idsVars>>

OutsideGatherIdle ==
    /\ CombineIdle
    /\ MainIdle
    /\ LoaderIdle
    /\ CheckpointIdle
    /\ OrcidIdle
    /\ NormIdle
    /\ RetryIdle
    /\ FetchIdle
    /\ SerpIdle
    /\ IdsIdle

outsideSerp ==
    <<authVars, mainVars, loaderVars, ckptVars, orcidVars, normVars, retryVars, fetchVars, gatherVars, idsVars>>

OutsideSerpIdle ==
    /\ CombineIdle
    /\ MainIdle
    /\ LoaderIdle
    /\ CheckpointIdle
    /\ OrcidIdle
    /\ NormIdle
    /\ RetryIdle
    /\ FetchIdle
    /\ GatherIdle
    /\ IdsIdle

outsideIds ==
    <<authVars, mainVars, loaderVars, ckptVars, orcidVars, normVars, retryVars, fetchVars, gatherVars, serpVars>>

OutsideIdsIdle ==
    /\ CombineIdle
    /\ MainIdle
    /\ LoaderIdle
    /\ CheckpointIdle
    /\ OrcidIdle
    /\ NormIdle
    /\ RetryIdle
    /\ FetchIdle
    /\ GatherIdle
    /\ SerpIdle

\* ---- end of the further frames ----

AuthorsInit ==
    /\ data \in {AuthorBatch(a) : a \in SerpAuthorLists}
    /\ existing_authors \in ExistingAuthorTables
    /\ a_pc = "start"
    /\ a_order = <<>>
    /\ a_res = NoResult
    /\ MainIdle
    /\ LoaderIdle
    /\ CheckpointIdle
    /\ UtilIdle

\* main, line 475: authors, additions = process_authors(data, existing_authors)
RunProcessAuthors ==
    /\ a_pc = "start"
    /\ \E order \in Perms(batch_authors(data)) :
          /\ a_order' = order
          /\ a_res' = process_authors(order, existing_authors)
    /\ a_pc' = IF a_res'.raised THEN "raised" ELSE "merged"
    /\ UNCHANGED <<data, existing_authors, mainVars, outsideCombine>>

\* process_authors run again on the same batch with its own output as the
\* existing table
RerunProcessAuthors ==
    /\ a_pc = "merged"
    /\ \E order \in Perms(batch_authors(data)) :
          /\ a_order' = order
          /\ a_res' = process_authors(order, a_res.merged_df)
    /\ existing_authors' = a_res.merged_df
    /\ a_pc' = "rerun"
    /\ UNCHANGED <<data, mainVars, outsideCombine>>

AuthorsNext == RunProcessAuthors \/ RerunProcessAuthors

SpecAuthors == AuthorsInit /\ [][AuthorsNext]_vars

(***************************************************************************)
(* main of combine_serp.py, lines 450-493: the four tables are computed    *)
(* one after the other; an exception ends the script.                      *)
(***************************************************************************)
ArticlesInit ==
    /\ data \in ArticleBatches
    /\ existing_articles \in ExistingArticleDbs
    /\ existing_authors = <<>>
    /\ existing_awa = <<>>
    /\ existing_aca = <<>>
    /\ a_pc = "off"
    /\ a_order = <<>>
    /\ a_res = NoResult
    /\ m_pc = "start"
    /\ art_res = NoArticles
    /\ awa_res = NoEdges
    /\ aca_res = NoEdges
    /\ LoaderIdle
    /\ CheckpointIdle
    /\ UtilIdle

CombineInit ==
    /\ data \in CombineBatches
    /\ existing_articles \in CombineArticleDbs
    /\ existing_authors \in CombineAuthorTables
    /\ existing_awa \in EdgeTables(Uids(existing_authors), Uids(existing_articles.rows))
    /\ existing_aca \in EdgeTables(Uids(existing_articles.rows), Uids(existing_articles.rows))
    /\ a_pc = "off"
    /\ a_order = <<>>
    /\ a_res = NoResult
    /\ m_pc = "start"
    /\ art_res = NoArticles
    /\ awa_res = NoEdges
    /\ aca_res = NoEdges
    /\ LoaderIdle
    /\ CheckpointIdle
    /\ UtilIdle

TablesInit ==
    /\ data \in TableBatches
    /\ existing_articles \in TableArticleDbs
    /\ existing_authors \in TableAuthorTables
    /\ existing_awa = <<>>
    /\ existing_aca \in TableCitationEdges
    /\ a_pc = "off"
    /\ a_order = <<>>
    /\ a_res = NoResult
    /\ m_pc = "start"
    /\ art_res = NoArticles
    /\ awa_res = NoEdges
    /\ aca_res = NoEdges
    /\ LoaderIdle
    /\ CheckpointIdle
    /\ UtilIdle

\* line 470
RunProcessArticles ==
    /\ m_pc = "start"
    /\ art_res' = process_articles(data, existing_articles)
    /\ m_pc' = IF art_res'.raised THEN "raised" ELSE "articles"
    /\ UNCHANGED <<authVars, existing_articles, existing_awa, existing_aca, awa_res, aca_res,
                   outsideCombine>>

\* line 475
MainProcessAuthors ==
    /\ m_pc = "articles"
    /\ \E order \in Perms(batch_authors(data)) :
          /\ a_order' = order
          /\ a_res' = process_authors(order, existing_authors)
    /\ m_pc' = IF a_res'.raised THEN "raised" ELSE "authors"
    /\ UNCHANGED <<data, existing_authors, a_pc, existing_articles, existing_awa,
                   existing_aca, art_res, awa_res, aca_res, outsideCombine>>

\* lines 481-483
MainProcessAuthorWroteArticle ==
    /\ m_pc = "authors"
    /\ awa_res' = process_author_wrote_article(data, existing_awa, a_res.merged_df)
    /\ m_pc' = IF awa_res'.raised THEN "raised" ELSE "awa"
    /\ UNCHANGED <<authVars, existing_articles, existing_awa, existing_aca, art_res, aca_res,
                   outsideCombine>>

\* lines 489-491
MainProcessArticleCitesArticle ==
    /\ m_pc = "awa"
    /\ aca_res' = process_article_cites_article(data, existing_aca)
    /\ m_pc' = IF aca_res'.raised THEN "raised" ELSE "done"
    /\ UNCHANGED <<authVars, existing_articles, existing_awa, existing_aca, art_res, awa_res,
                   outsideCombine>>

ArticlesNext == RunProcessArticles

SpecArticles == ArticlesInit /\ [][ArticlesNext]_vars

CombineNext ==
    \/ RunProcessArticles
    \/ MainProcessAuthors
    \/ MainProcessAuthorWroteArticle
    \/ MainProcessArticleCitesArticle

SpecCombine == CombineInit /\ [][CombineNext]_vars

SpecTables == TablesInit /\ [][CombineNext]_vars

(***************************************************************************)
(* neo4j/loader.py: the graph and the batch_add_* functions.               *)
(* A node is [id, labels, uid, props]; an edge is [type, src, dst, props]  *)
(* with src and dst node ids and props a set of <<key, value>> pairs.      *)
(***************************************************************************)
\* Cypher's `s CONTAINS sub` on strings held as character sequences.  An
\* optional string is <<>> (null) or <<text>>; null CONTAINS anything is
\* null, which a WHERE treats as false
Contains(s, sub) ==
    /\ s # <<>>
    /\ \E i \in 0..(Len(s[1]) - Len(sub)) : SubSeq(s[1], i + 1, i + Len(sub)) = sub

epfl == <<"e", "p", "f", "l">>
book == <<"b", "o", "o", "k">>
chapter == <<"c", "h", "a", "p", "t", "e", "r">>

\* (n:Label {uid: value}): a null value matches no node
NodesWith(graph_nodes, label, uid) ==
    {n \in graph_nodes : label \in n.labels /\ uid # None /\ n.uid = uid}

\* the rows of one UNWIND, in order: the node found under the label and
\* uid is updated, a missing one is created
RECURSIVE merge_rows(_, _, _, _)
merge_rows(rows, label, graph_nodes, next) ==
    IF rows = <<>> THEN [raised |-> FALSE, nodes |-> graph_nodes, next |-> next]
    ELSE LET row == Head(rows)
             found == NodesWith(graph_nodes, label, row.uid)
         IN  IF found = {}
             THEN merge_rows(Tail(rows), label,
                             graph_nodes \cup {[id |-> next, labels |-> {label},
                                          uid |-> row.uid, props |-> row]},
                             next + 1)
             ELSE merge_rows(Tail(rows), label,
                             (graph_nodes \ found) \cup {[n EXCEPT !.props = row] : n \in found},
                             next)

\* UNWIND $rows AS row MERGE (a:Label {uid: row.uid}) SET a.<property> =
\* row.<property>, ...  MERGE on a null property value is an error: a row
\* without uid makes tx.run raise, the transaction of the batch is rolled
\* back and no node of the batch is written.
merge_nodes(rows, label, graph_nodes, next) ==
    IF \E k \in DOMAIN rows : rows[k].uid = None
    THEN [raised |-> TRUE, nodes |-> graph_nodes, next |-> next]
    ELSE merge_rows(rows, label, graph_nodes, next)

\* lines 166-217.  The text of the statement (lines 177-211) is no Cypher
\* statement: line 202 reads "article.source = 'csv' NOT a.publication_date
\* IS NOT NULL", two expressions with no operator between them.  The server
\* rejects the statement as a whole, tx.run raises CypherSyntaxError (a
\* Neo4jError, re-raised at line 160) and no clause of it runs: neither the
\* MERGE of line 179 nor a SET of a label.  The graph stays as it is.
batch_add_articles(articles, graph_nodes, next) ==
    [raised |-> TRUE, nodes |-> graph_nodes, next |-> next]

\* lines 298-316
batch_add_authors(authors, graph_nodes, next) == merge_nodes(authors, "Author", graph_nodes, next)

\* lines 319-337
batch_add_institutions(institutions, graph_nodes, next) ==
    merge_nodes(institutions, "Institution", graph_nodes, next)

\* UNWIND $connections ... MATCH ... MERGE (s)-[rel:TYPE]->(t) SET
\* rel.<property> = ...: the rows in the order of the list.  A row is
\* [pairs, props]: the pairs <<s, t>> of node ids its MATCH binds and the
\* properties its SET writes.  The MERGE of a row binds the relationships of
\* the type between the pair, those created for an earlier row included,
\* and creates one when there is none; the SET overwrites the properties it
\* names and leaves the others.
RECURSIVE merge_edges(_, _, _)
merge_edges(graph_edges, type, rows) ==
    IF rows = <<>> THEN graph_edges
    ELSE LET row == Head(rows)
             bound == {e \in graph_edges : e.type = type /\ <<e.src, e.dst>> \in row.pairs}
             updated == {[e EXCEPT !.props =
                              row.props \cup {x \in e.props : \A y \in row.props : y[1] # x[1]}]
                           : e \in bound}
             created == {[type |-> type, src |-> q[1], dst |-> q[2], props |-> row.props]
                           : q \in {x \in row.pairs : \A e \in bound : <<e.src, e.dst>> # x}}
         IN  merge_edges((graph_edges \ bound) \cup updated \cup created, type, Tail(rows))

\* lines 340-356
batch_add_article_cites_article(connections, graph_nodes, graph_edges) ==
    merge_edges(graph_edges, "ARTICLE_CITES_ARTICLE",
        [k \in DOMAIN connections |->
            [pairs |-> {<<s.id, t.id>> :
                           s \in NodesWith(graph_nodes, "Article", connections[k].source),
                           t \in NodesWith(graph_nodes, "Article", connections[k].target)},
             props |-> {}]])

\* lines 447-465
batch_add_author_affiliated_with_institution(connections, graph_nodes, graph_edges) ==
    merge_edges(graph_edges, "AFFILIATED_WITH",
        [k \in DOMAIN connections |->
            [pairs |-> {<<s.id, t.id>> :
                           s \in NodesWith(graph_nodes, "Author", connections[k].author),
                           t \in NodesWith(graph_nodes, "Institution",
                                           connections[k].institution)},
             props |-> {<<"start_date", connections[k].start_date>>,
                        <<"end_date", connections[k].end_date>>}]])

\* lines 481-484: a node whose uid or google_scholar_id is the given key.
\* A comparison with null is null, and WHERE drops the row: a null key
\* matches no node, a null google_scholar_id no key.
MatchesKey(n, label, key) ==
    /\ label \in n.labels
    /\ key # None
    /\ \/ n.uid = key
       \/ n.props.google_scholar_id = key

\* lines 468-487
batch_add_author_wrote_article(connections, graph_nodes, graph_edges) ==
    merge_edges(graph_edges, "WROTE",
        [k \in DOMAIN connections |->
            [pairs |-> {<<s.id, t.id>> :
                           s \in {n \in graph_nodes :
                                     MatchesKey(n, "Author", connections[k].author)},
                           t \in {n \in graph_nodes :
                                     MatchesKey(n, "Article", connections[k].article)}},
             props |-> {}]])

\* the nodes of a label
Labelled(graph_nodes, label) == {n \in graph_nodes : label \in n.labels}

\* whether a relationship of the type leads from node s to node t
Related(graph_edges, type, s, t) ==
    \E e \in graph_edges : e.type = type /\ e.src = s.id /\ e.dst = t.id

\* lines 490-503: MATCH (author:Author)-[:WROTE]->(article1:Article)
\* -[:ARTICLE_CITES_ARTICLE]->(article2:Article)
\* MERGE (author)-[:AUTHOR_CITES_ARTICLE]->(article2)
add_author_cites_article(graph_nodes, graph_edges) ==
    LET paths == {x \in Labelled(graph_nodes, "Author") \X Labelled(graph_nodes, "Article")
                         \X Labelled(graph_nodes, "Article") :
                     /\ Related(graph_edges, "WROTE", x[1], x[2])
                     /\ Related(graph_edges, "ARTICLE_CITES_ARTICLE", x[2], x[3])}
    IN  merge_edges(graph_edges, "AUTHOR_CITES_ARTICLE",
                    << [pairs |-> {<<x[1].id, x[3].id>> : x \in paths}, props |-> {}] >>)

\* the start dates of the model, in the order of time
StartDates == <<"t1", "t2">>

\* the place of a start date in the order of ORDER BY (line 699)
start_date_order(d) == CHOOSE k \in DOMAIN StartDates : StartDates[k] = d

\* the value of a property of a relationship; a property set to null is absent
Prop(e, key) ==
    IF \E x \in e.props : x[1] = key THEN (CHOOSE x \in e.props : x[1] = key)[2] ELSE None

\* SET rel.key = value
set_prop(e, key, value) ==
    [e EXCEPT !.props = {x \in e.props : x[1] # key} \cup {<<key, value>>}]

\* lines 690 and 696: MATCH (author:Author)-[aff:AFFILIATED_WITH]->(institution:Institution)
matched_affiliations(graph_nodes, graph_edges) ==
    {e \in graph_edges :
        /\ e.type = "AFFILIATED_WITH"
        /\ \E n \in graph_nodes : n.id = e.src /\ "Author" \in n.labels
        /\ \E n \in graph_nodes : n.id = e.dst /\ "Institution" \in n.labels}

\* ORDER BY author.uid, start_date (ascending)
latest_affiliations_ascending(graph_nodes, graph_edges) ==
    LET dated == {e \in matched_affiliations(graph_nodes, graph_edges) :
                     Prop(e, "start_date") # None}
        authors == {e.src : e \in dated}
        first(a) == {e \in dated :
                        /\ e.src = a
                        /\ \A f \in dated :
                               f.src = a => start_date_order(Prop(e, "start_date"))
                                              <= start_date_order(Prop(f, "start_date"))}
    IN  {c \in [authors -> dated] : \A a \in authors : c[a] \in first(a)}

\* lines 697-700: for every author with a dated relationship, the first of
\* its relationships in the order of start_date DESC.  The value is the set
\* of the choices the order leaves: each is a function from those authors to
\* one of their relationships with the latest start date.
latest_affiliations(graph_nodes, graph_edges) ==
    LET dated == {e \in matched_affiliations(graph_nodes, graph_edges) :
                     Prop(e, "start_date") # None}
        authors == {e.src : e \in dated}
        first(a) == {e \in dated :
                        /\ e.src = a
                        /\ \A f \in dated :
                               f.src = a => start_date_order(Prop(f, "start_date"))
                                              <= start_date_order(Prop(e, "start_date"))}
    IN  {c \in [authors -> dated] : \A a \in authors : c[a] \in first(a)}

\* lines 680-704: current = false on every relationship, then current = true
\* on the latest of every author
set_current_affiliation(graph_nodes, graph_edges, latest) ==
    LET matched == matched_affiliations(graph_nodes, graph_edges)
    IN  (graph_edges \ matched)
        \cup {set_prop(e, "current",
                       IF \E a \in DOMAIN latest : latest[a] = e THEN "true" ELSE "false")
                 : e \in matched}

\* the dates of the model in the order of time, one day after the other:
\* the publication date p1 lies between the two start dates
Dates == <<"t1", "p1", "t2">>

\* date(d) as a day number
date_day(d) == CHOOSE k \in DOMAIN Dates : Dates[k] = d

Abs(n) == IF n < 0 THEN 0 - n ELSE n

\* the elements of a finite set, one after the other
Enumerated(S) ==
    CHOOSE f \in [1..Cardinality(S) -> S] : \A i, j \in DOMAIN f : i # j => f[i] # f[j]

\* lines 635-660.  A group is <<author, institution, article>> (line 651);
\* closest is COLLECT(aff)[0] of the group in the order of line 650, any of
\* the nearest when two are equally near; line 652 keeps the groups whose
\* closest affiliation started by the publication date; of the rows of one
\* institution and article the SET of the last one stands (lines 656-658),
\* and the statement gives the rows no order.  The value is the set of the
\* graphs the statement can leave.
add_institution_cites_article(graph_nodes, graph_edges) ==
    LET affs(g) == {e \in graph_edges : /\ e.type = "AFFILIATED_WITH"
                                        /\ e.src = g[1].id
                                        /\ e.dst = g[2].id
                                        /\ Prop(e, "start_date") # None}
        time_diff_days(e, g) ==
            date_day(g[3].props.publication_date) - date_day(Prop(e, "start_date"))
        groups == {g \in Labelled(graph_nodes, "Author") \X Labelled(graph_nodes, "Institution")
                          \X Labelled(graph_nodes, "Article") :
                      /\ Related(graph_edges, "AUTHOR_CITES_ARTICLE", g[1], g[3])
                      /\ g[3].props.publication_date # None
                      /\ affs(g) # {}}
        nearest(g) == {e \in affs(g) :
                          \A f \in affs(g) :
                              Abs(time_diff_days(e, g)) <= Abs(time_diff_days(f, g))}
        rows(closest) == {g \in groups : time_diff_days(closest[g], g) >= 0}
        targets(closest) == {<<g[2].id, g[3].id>> : g \in rows(closest)}
        written(closest, last) ==
            LET q == Enumerated(targets(closest))
            IN  merge_edges(graph_edges, "INSTITUTION_CITES_ARTICLE",
                    [k \in DOMAIN q |->
                        [pairs |-> {q[k]},
                         props |-> {<<"start_date", Prop(closest[last[q[k]]], "start_date")>>,
                                    <<"end_date", Prop(closest[last[q[k]]], "end_date")>>}]])
    IN  UNION { { written(closest, last) :
                    last \in {f \in [targets(closest) -> groups] :
                                 \A q \in targets(closest) :
                                     /\ f[q] \in rows(closest)
                                     /\ <<f[q][2].id, f[q][3].id>> = q} }
                : closest \in {f \in [groups -> graph_edges] :
                                  \A g \in groups : f[g] \in nearest(g)} }

\* utils.py lines 98-110 and 160-178: MATCH (n) DETACH DELETE n, then every
\* constraint is dropped
remove_all_nodes_and_edges(graph_nodes, graph_edges) == [nodes |-> {}, edges |-> {}]

\* utils.py lines 113-127: MATCH (n)-[r:TYPE]->(n) DELETE r
remove_self_loops_of_type(graph_nodes, graph_edges, rel_type) ==
    [nodes |-> graph_nodes,
     edges |-> {e \in graph_edges : ~(e.type = rel_type /\ e.src = e.dst)}]

\* utils.py lines 130-143: MATCH ()-[r:TYPE]->() DELETE r
remove_relationship_type(graph_nodes, graph_edges, relationship) ==
    [nodes |-> graph_nodes, edges |-> {e \in graph_edges : e.type # relationship}]

\* utils.py lines 146-157: MATCH (n:Label) DETACH DELETE n; the
\* relationships of a deleted node go with it
remove_node_type(graph_nodes, graph_edges, label) ==
    LET removed == {n.id : n \in Labelled(graph_nodes, label)}
    IN  [nodes |-> {n \in graph_nodes : n.id \notin removed},
         edges |-> {e \in graph_edges : e.src \notin removed /\ e.dst \notin removed}]

\* loader.py lines 16-28: CREATE CONSTRAINT ... IS UNIQUE without IF NOT
\* EXISTS; on a database that holds the constraint the server answers with
\* an error and tx.run raises
create_constraints(exist) == [raised |-> exist, constraints |-> TRUE]

(***************************************************************************)
(* integrate_batch.py, main.  A run starts with lines 47-62 (the wipe on   *)
(* --wipe_db, then create_constraints), goes through the six batch_process *)
(* calls of lines 111-153 in the script's order, every table in one batch, *)
(* and ends with the transactions of lines 156-171; of these the model     *)
(* has the three that write relationships or their properties (lines 157,  *)
(* 158 and 160), the others write counts on the nodes.                     *)
(***************************************************************************)
ArticleNodeUids == <<"q1", "q2">>

\* the kinds of article rows: a thesis, a BBP article, an unpublished csv
\* article, a book, an article known to Google Scholar, and an undated csv
\* thesis whose url also holds 'book'
LoaderArticleRows(uid) ==
    { [uid |-> uid, is_bbp |-> TRUE, url |-> << <<"x", "/">> \o epfl >>, source |-> "europmc",
       publication_date |-> "p1", google_scholar_id |-> None],
      [uid |-> uid, is_bbp |-> TRUE, url |-> <<>>, source |-> "europmc",
       publication_date |-> "p1", google_scholar_id |-> None],
      [uid |-> uid, is_bbp |-> FALSE, url |-> <<>>, source |-> "csv",
       publication_date |-> None, google_scholar_id |-> None],
      [uid |-> uid, is_bbp |-> FALSE, url |-> << <<"x", "/">> \o book >>, source |-> "europmc",
       publication_date |-> "p1", google_scholar_id |-> None],
      [uid |-> uid, is_bbp |-> FALSE, url |-> <<>>, source |-> "serp",
       publication_date |-> None, google_scholar_id |-> uid],
      [uid |-> uid, is_bbp |-> TRUE, url |-> << epfl \o <<"/">> \o book >>, source |-> "csv",
       publication_date |-> None, google_scholar_id |-> None] }

LoaderArticleTables ==
    UNION { { t \in [1..l -> UNION {LoaderArticleRows(ArticleNodeUids[i]) : i \in 1..l}] :
                \A i \in 1..l : t[i].uid = ArticleNodeUids[i] }
            : l \in 0..MaxArticles }

UpTo1(S) == {<<>>} \cup {<<x>> : x \in S}

Datasets ==
    [articles : LoaderArticleTables,
     authors : UpTo1({[uid |-> "u1", orcid_id |-> "u1", name |-> "n1", google_scholar_id |-> g]
                        : g \in {None, "g1"}}
                     \cup {[uid |-> None, orcid_id |-> None, name |-> "n1",
                            google_scholar_id |-> None]}),
     institutions : UpTo1({[uid |-> "i1", name |-> "n2", organization_id |-> "r1",
                            organization_id_source |-> "ROR"]}),
     article_cites_article : UpTo1({[source |-> "q2", target |-> "q1"]}),
     author_affiliated_with_institution :
         UpTo1({[author |-> "u1", institution |-> "i1", start_date |-> "t1", end_date |-> None]}),
     author_wrote_article :
         UpTo1({[author |-> a, article |-> "q1"] : a \in {"u1", "g1", None}})]

LoaderInit ==
    /\ dataset \in Datasets
    /\ constraints = FALSE
    /\ nodes = {}
    /\ edges = {}
    /\ next_id = 1
    /\ l_pc = 0
    /\ l_loads = 0
    /\ CombineIdle
    /\ MainIdle
    /\ CheckpointIdle
    /\ UtilIdle

\* lines 47-62: main is started, with or without --wipe_db, on the database
\* as the run before left it.  Without the wipe a database that holds the
\* constraints makes create_constraints raise at line 61: nothing catches
\* the exception and main ends before any batch_process.
StartRun ==
    /\ l_pc \in {0, 10}
    /\ l_loads < MaxLoads
    /\ \E wipe_db \in BOOLEAN :
          LET graph == IF wipe_db THEN remove_all_nodes_and_edges(nodes, edges)
                       ELSE [nodes |-> nodes, edges |-> edges]
              created == create_constraints(~wipe_db /\ constraints)
          IN  /\ nodes' = graph.nodes
              /\ edges' = graph.edges
              /\ constraints' = created.constraints
              /\ l_pc' = IF created.raised THEN 10 ELSE 1
    /\ UNCHANGED <<dataset, next_id, l_loads, outsideLoader>>

\* lines 113-118: batch_process calls batch_add_articles on the batch (no
\* call for an empty table); the exception is logged at line 107 and main
\* goes on
LoadArticles ==
    /\ l_pc = 1
    /\ LET r == IF dataset.articles = <<>>
                THEN [nodes |-> nodes, next |-> next_id]
                ELSE batch_add_articles(dataset.articles, nodes, next_id)
       IN  nodes' = r.nodes /\ next_id' = r.next
    /\ l_pc' = 2
    /\ UNCHANGED <<dataset, constraints, edges, l_loads, outsideLoader>>

\* line 121
LoadAuthors ==
    /\ l_pc = 2
    /\ LET r == batch_add_authors(dataset.authors, nodes, next_id)
       IN  nodes' = r.nodes /\ next_id' = r.next
    /\ l_pc' = 3
    /\ UNCHANGED <<dataset, constraints, edges, l_loads, outsideLoader>>

\* line 129
LoadInstitutions ==
    /\ l_pc = 3
    /\ LET r == batch_add_institutions(dataset.institutions, nodes, next_id)
       IN  nodes' = r.nodes /\ next_id' = r.next
    /\ l_pc' = 4
    /\ UNCHANGED <<dataset, constraints, edges, l_loads, outsideLoader>>

\* lines 131-137
LoadArticleCitesArticle ==
    /\ l_pc = 4
    /\ edges' = batch_add_article_cites_article(dataset.article_cites_article, nodes, edges)
    /\ l_pc' = 5
    /\ UNCHANGED <<dataset, constraints, nodes, next_id, l_loads, outsideLoader>>

\* lines 139-146
LoadAuthorAffiliatedWithInstitution ==
    /\ l_pc = 5
    /\ edges' = batch_add_author_affiliated_with_institution(
                    dataset.author_affiliated_with_institution, nodes, edges)
    /\ l_pc' = 6
    /\ UNCHANGED <<dataset, constraints, nodes, next_id, l_loads, outsideLoader>>

\* lines 148-153
LoadAuthorWroteArticle ==
    /\ l_pc = 6
    /\ edges' = batch_add_author_wrote_article(dataset.author_wrote_article, nodes, edges)
    /\ l_pc' = 7
    /\ UNCHANGED <<dataset, constraints, nodes, next_id, l_loads, outsideLoader>>

\* line 157
AddAuthorCitesArticle ==
    /\ l_pc = 7
    /\ edges' = add_author_cites_article(nodes, edges)
    /\ l_pc' = 8
    /\ UNCHANGED <<dataset, constraints, nodes, next_id, l_loads, outsideLoader>>

\* line 158
AddInstitutionCitesArticle ==
    /\ l_pc = 8
    /\ edges' \in add_institution_cites_article(nodes, edges)
    /\ l_pc' = 9
    /\ UNCHANGED <<dataset, constraints, nodes, next_id, l_loads, outsideLoader>>

\* line 160; the server may take any of the latest relationships of an
\* author as the first of the collection.  The run has loaded the dataset.
SetCurrentAffiliation ==
    /\ l_pc = 9
    /\ \E latest \in latest_affiliations(nodes, edges) :
           edges' = set_current_affiliation(nodes, edges, latest)
    /\ l_loads' = l_loads + 1
    /\ l_pc' = 0
    /\ UNCHANGED <<dataset, constraints, nodes, next_id, outsideLoader>>

LoaderNext ==
    \/ StartRun
    \/ LoadArticles
    \/ LoadAuthors
    \/ LoadInstitutions
    \/ LoadArticleCitesArticle
    \/ LoadAuthorAffiliatedWithInstitution
    \/ LoadAuthorWroteArticle
    \/ AddAuthorCitesArticle
    \/ AddInstitutionCitesArticle
    \/ SetCurrentAffiliation

SpecLoader == LoaderInit /\ [][LoaderNext]_vars

(***************************************************************************)
(* data_sources/utils.py: save_checkpoint, save_authors_results and        *)
(* load_authors_state.  A file is [state, rows]: absent, complete or       *)
(* partial (a to_csv that was cut short), with the number of processed     *)
(* articles its contents stand for.                                        *)
(***************************************************************************)
CompleteFile(n) == [state |-> "complete", rows |-> n]

\* the checkpoint directory holding the complete checkpoint of n articles,
\* or nothing when no checkpoint was saved yet
CheckpointOf(n) ==
    [f \in Range(CheckpointFiles) |-> IF n = 0 THEN NoFile ELSE CompleteFile(n)]

CheckpointInit ==
    /\ ck_prev \in 0..(MaxProcessed - 1)
    /\ ckpt_files = CheckpointOf(ck_prev)
    /\ ck_new = 0
    /\ ck_pc = 0
    /\ ck_crashed = FALSE
    /\ ck_loaded = NotLoaded
    /\ CombineIdle
    /\ MainIdle
    /\ LoaderIdle
    /\ UtilIdle

\* the caller enters save_checkpoint with the state of more processed articles
SaveCheckpointCall ==
    /\ ck_pc = 0
    /\ ~ck_crashed
    /\ \E n \in (ck_prev + 1)..MaxProcessed : ck_new' = n
    /\ ck_pc' = 1
    /\ UNCHANGED <<ckpt_files, ck_prev, ck_crashed, ck_loaded, outsideCheckpoint>>

\* lines 258-262: articles_processed.to_csv over the file of the directory
WriteArticlesProcessed ==
    /\ ck_pc = 1
    /\ ~ck_crashed
    /\ ckpt_files' = [ckpt_files EXCEPT ![CheckpointFiles[1]] = CompleteFile(ck_new)]
    /\ ck_pc' = 2
    /\ UNCHANGED <<ck_prev, ck_new, ck_crashed, ck_loaded, outsideCheckpoint>>

\* lines 157-182: the next to_csv of save_authors_results; after the last
\* one save_checkpoint returns
SaveAuthorsResultsWrite ==
    /\ ck_pc \in 2..5
    /\ ~ck_crashed
    /\ ckpt_files' = [ckpt_files EXCEPT ![CheckpointFiles[ck_pc]] = CompleteFile(ck_new)]
    /\ ck_pc' = IF ck_pc = 5 THEN 0 ELSE ck_pc + 1
    /\ ck_prev' = IF ck_pc = 5 THEN ck_new ELSE ck_prev
    /\ UNCHANGED <<ck_new, ck_crashed, ck_loaded, outsideCheckpoint>>

\* the process is killed between two to_csv calls
Crash ==
    /\ ck_pc \in 1..5
    /\ ~ck_crashed
    /\ ck_crashed' = TRUE
    /\ UNCHANGED <<ckpt_files, ck_prev, ck_new, ck_pc, ck_loaded, outsideCheckpoint>>

\* the process is killed inside a to_csv: the file was opened for writing
\* and holds only the rows written so far
CrashInWrite ==
    /\ ck_pc \in 1..5
    /\ ~ck_crashed
    /\ \E n \in 0..(ck_new - 1) :
          ckpt_files' = [ckpt_files EXCEPT ![CheckpointFiles[ck_pc]] =
                             [state |-> "partial", rows |-> n]]
    /\ ck_crashed' = TRUE
    /\ UNCHANGED <<ck_prev, ck_new, ck_pc, ck_loaded, outsideCheckpoint>>

\* lines 60-98 after the restart: the checkpoint exists when
\* articles_processed.csv does; a missing file makes read_csv raise, a
\* partial one is read as far as it goes or makes read_csv raise
load_authors_state_outcomes(files) ==
    IF files[CheckpointFiles[1]].state = "absent"
    THEN {[state |-> "empty", rows |-> [f \in Range(CheckpointFiles) |-> 0]]}
    ELSE IF \E f \in Range(CheckpointFiles) : files[f].state = "absent"
    THEN {[state |-> "raised", rows |-> [f \in Range(CheckpointFiles) |-> 0]]}
    ELSE {[state |-> "loaded", rows |-> [f \in Range(CheckpointFiles) |-> files[f].rows]]}
         \cup (IF \E f \in Range(CheckpointFiles) : files[f].state = "partial"
               THEN {[state |-> "raised", rows |-> [f \in Range(CheckpointFiles) |-> 0]]}
               ELSE {})

LoadAuthorsState ==
    /\ ck_crashed
    /\ ck_loaded = NotLoaded
    /\ ck_loaded' \in load_authors_state_outcomes(ckpt_files)
    /\ UNCHANGED <<ckpt_files, ck_prev, ck_new, ck_pc, ck_crashed, outsideCheckpoint>>

CheckpointNext ==
    \/ SaveCheckpointCall
    \/ WriteArticlesProcessed
    \/ SaveAuthorsResultsWrite
    \/ Crash
    \/ CrashInWrite
    \/ LoadAuthorsState

SpecCheckpoint == CheckpointInit /\ [][CheckpointNext]_vars

(***************************************************************************)
(* Claims about process_authors.                                           *)
(***************************************************************************)
AuthorRunDone == a_pc \in {"merged", "rerun"} \/ m_pc \in {"authors", "awa", "done"}

SameBlock(new_author, row) ==
    \/ get_initials(normalize_author_name(row.name))
          = get_initials(normalize_author_name(new_author.name))
    \/ get_last_name(normalize_author_name(row.name))
          = get_last_name(normalize_author_name(new_author.name))

NameScore(new_author, row) ==
    fuzz_ratio(normalize_author_name(new_author.name), normalize_author_name(row.name))

SeparateRecord(new_author) ==
    [uid |-> new_author.google_scholar_id, orcid_id |-> None,
     name |-> new_author.name, google_scholar_id |-> new_author.google_scholar_id]

\* C1: in one run no two distinct new (google_scholar_id, name) records are
\* merged into the same existing author uid.
C1_AtMostOneNewPerExisting ==
    AuthorRunDone =>
        \A i \in DOMAIN a_order : \A j \in DOMAIN a_order :
            (i # j /\ a_res.match_idx[i] # 0 /\ a_res.match_idx[j] # 0)
                => existing_authors[a_res.match_idx[i]].uid
                     # existing_authors[a_res.match_idx[j]].uid

\* C2: process_authors run on its own output M (same batch) returns a merged
\* table with exactly the records of M.
C2_RerunIsNoOp ==
    a_pc = "rerun" => Range(a_res.merged_df) = Range(existing_authors)

\* C6: a new author is merged only into the candidate of its block with the
\* highest similarity, that similarity being at least 90 and ties going to
\* the first candidate in table order; a new author with an empty block or a
\* best score below 90 gets the separate row (uid = google_scholar_id, null
\* orcid_id), and the merged table has a null-orcid record under that uid.
C6_BestCandidateOrSeparate ==
    AuthorRunDone =>
        \A i \in DOMAIN a_order :
            LET new == a_order[i]
                m == a_res.match_idx[i]
                E == existing_authors
            IN  /\ m # 0 =>
                      /\ m \in DOMAIN E
                      /\ SameBlock(new, E[m])
                      /\ NameScore(new, E[m]).num >= 90 * NameScore(new, E[m]).den
                      /\ \A k \in DOMAIN E :
                            SameBlock(new, E[k]) =>
                               /\ ~ScoreGT(NameScore(new, E[k]), NameScore(new, E[m]))
                               /\ ScoreEQ(NameScore(new, E[k]), NameScore(new, E[m])) => m <= k
                      /\ a_res.merged_rows[i].uid = E[m].uid
                /\ m = 0 =>
                      /\ \A k \in DOMAIN E :
                            SameBlock(new, E[k]) =>
                                NameScore(new, E[k]).num < 90 * NameScore(new, E[k]).den
                      /\ a_res.merged_rows[i] = SeparateRecord(new)
                      /\ \E r \in Range(a_res.merged_df) :
                            r.uid = new.google_scholar_id /\ r.orcid_id = None

\* C6 witness: one run with a tie at the maximum (two candidates of the block
\* with the same score, the first one taken) and another new author left
\* unmatched although its block is not empty.
C6_Witness ==
    /\ AuthorRunDone
    /\ \E i \in DOMAIN a_order : \E k \in DOMAIN existing_authors :
          /\ a_res.match_idx[i] # 0
          /\ a_res.match_idx[i] < k
          /\ SameBlock(a_order[i], existing_authors[k])
          /\ ScoreEQ(NameScore(a_order[i], existing_authors[k]),
                     NameScore(a_order[i], existing_authors[a_res.match_idx[i]]))
    /\ \E i \in DOMAIN a_order :
          /\ a_res.match_idx[i] = 0
          /\ a_res.candidates[i] # <<>>

\* C7: only pairs sharing initials or last name enter the scored candidate
\* set, and a new author is never merged into an existing author it shares
\* neither with.
C7_BlockingOnly ==
    AuthorRunDone =>
        \A i \in DOMAIN a_order :
            /\ \A k \in Range(a_res.candidates[i]) :
                  SameBlock(a_order[i], existing_authors[k])
            /\ a_res.match_idx[i] # 0 =>
                  SameBlock(a_order[i], existing_authors[a_res.match_idx[i]])

\* C7 witness: a pair scoring at least 90 that shares neither initials nor
\* last name, and the new author of the pair was left unmatched.
C7_Witness ==
    /\ AuthorRunDone
    /\ \E i \in DOMAIN a_order : \E k \in DOMAIN existing_authors :
          /\ ~SameBlock(a_order[i], existing_authors[k])
          /\ NameScore(a_order[i], existing_authors[k]).num
                >= 90 * NameScore(a_order[i], existing_authors[k]).den
          /\ a_res.match_idx[i] = 0

\* C8: every existing author no new record matched is in the merged output
\* with uid, orcid_id, name and google_scholar_id unchanged.
C8_UnmatchedExistingUnchanged ==
    AuthorRunDone =>
        \A k \in DOMAIN existing_authors :
            existing_authors[k].uid \notin a_res.matched
                => existing_authors[k] \in Range(a_res.merged_df)

(***************************************************************************)
(* Claims about process_articles and the tables of one run of main.        *)
(***************************************************************************)
ArticlesRunDone == m_pc \in {"articles", "authors", "awa", "done", "raised"}

\* the SERP articles that enter the merge (one per normalized title)
NewArticles == drop_duplicates_title(serp_articles(data, {}, <<>>), {}, <<>>)

SameTitle(l, r) == normalize_title_serp(l.title) = normalize_title_serp(r.title)

ExpectedCitations(l, r) ==
    IF l.citations # <<>> /\ r.citations # <<>>
    THEN IF l.citations[1] >= r.citations[1] THEN l.citations[1] ELSE r.citations[1]
    ELSE IF l.citations # <<>> THEN l.citations[1]
    ELSE IF r.citations # <<>> THEN r.citations[1]
    ELSE 0

\* the record the merge rule prescribes for new article l and existing r
IsMergeOf(x, l, r) ==
    /\ x.uid = r.uid
    /\ \A f \in columns_from_existing :
          x[f] = IF r[f] # None THEN r[f] ELSE l[f]
    /\ x.citations = ExpectedCitations(l, r)

\* C4: for a new SERP article and an existing article with the same
\* normalized title process_articles emits one record with the existing uid,
\* each of is_bbp, is_published, publication_date, url, abstract, doi, pmid,
\* europmc_id, isbns holding the existing value when non-null and the new
\* value otherwise, and citations the maximum of the two counts, the present
\* one, or 0.
C4_MergedRecordPrefersExisting ==
    ArticlesRunDone =>
        \A l \in Range(NewArticles) : \A r \in Range(existing_articles.rows) :
            SameTitle(l, r) =>
                /\ ~art_res.raised
                /\ Cardinality({i \in DOMAIN art_res.final_df :
                                   art_res.final_df[i].uid = r.uid}) = 1
                /\ \A x \in Range(art_res.final_df) :
                      x.uid = r.uid => IsMergeOf(x, l, r)

\* line 19 of schemas.py: the provenance tags of Article.source
SourceTags == {"europmc", "csv", "serp", "serp_europmc", "serp_csv"}

\* C5: in the table process_articles returns a record seen on both sides has
\* the source 'serp_' + existing source, a record seen on one side keeps
\* that side's source, and every source is one of the schema's five tags
\* (the existing table's own sources all being among them).
C5_SourceIsSchemaTag ==
    (ArticlesRunDone /\ ~art_res.raised) =>
        \A i \in DOMAIN art_res.pairs :
            LET l == art_res.pairs[i].l
                r == art_res.pairs[i].r
                x == art_res.merged_rows[i]
            IN  /\ (l.source # None /\ r.source # None) => x.source = "serp_" \o r.source
                /\ (l.source # None /\ r.source = None) => x.source = l.source
                /\ (l.source = None /\ r.source # None) => x.source = r.source
                /\ x.source \in SourceTags

\* C3: after one run of main every article_cites_article row has both
\* endpoints among the uids of the final articles table, and every
\* author_wrote_article row has its author among the uids of the final
\* authors table and its article among the uids of the final articles table.
C3_EdgeEndpointsExist ==
    m_pc = "done" =>
        /\ \A e \in Range(aca_res.final_df) :
              /\ e[1] \in Uids(art_res.final_df)
              /\ e[2] \in Uids(art_res.final_df)
        /\ \A e \in Range(awa_res.final_df) :
              /\ e[1] \in Uids(a_res.merged_df)
              /\ e[2] \in Uids(art_res.final_df)

(***************************************************************************)
(* Claims about the checkpoint.                                            *)
(***************************************************************************)
\* C10: after a crash at any point inside save_checkpoint the directory
\* holds the complete previous checkpoint, all five files with the previous
\* contents and never a mix of old and new, and load_authors_state reads
\* that checkpoint back.
C10_CrashKeepsPreviousCheckpoint ==
    ck_crashed =>
        /\ ckpt_files = CheckpointOf(ck_prev)
        /\ ck_loaded # NotLoaded =>
              /\ ck_loaded.state = (IF ck_prev = 0 THEN "empty" ELSE "loaded")
              /\ \A f \in Range(CheckpointFiles) : ck_loaded.rows[f] = ck_prev

(***************************************************************************)
(* Claims about the tables main assembles (SpecTables).                    *)
(***************************************************************************)
NoTwoRows(t, Key(_)) ==
    \A i \in DOMAIN t : \A j \in DOMAIN t : Key(t[i]) = Key(t[j]) => i = j

RowUid(r) == r.uid

WholeRow(r) == r

\* C11: the articles table process_articles returns has no two rows with
\* the same uid, and the table process_article_cites_article returns has no
\* two rows with the same (article_uid_source, article_uid_target) pair.
C11_NoDuplicateRows ==
    /\ (m_pc \in {"articles", "authors", "awa", "done"}) => NoTwoRows(art_res.final_df, RowUid)
    /\ (m_pc = "done") => NoTwoRows(aca_res.final_df, WholeRow)

\* both tables were returned; before the final drop_duplicates two rows of
\* the articles frame had one uid, and a pair was listed twice in the batch
\* and was in the existing table as well
C11_Witness ==
    /\ m_pc = "done"
    /\ ~NoTwoRows(art_res.merged_rows, RowUid)
    /\ ~NoTwoRows(serp_article_cites_article(data), WholeRow)
    /\ \E e \in Range(existing_aca) : e \in Range(serp_article_cites_article(data))

\* C12: no row of the citation table process_article_cites_article returns
\* has article_uid_source equal to article_uid_target.
C12_NoSelfCitation ==
    m_pc = "done" => \A e \in Range(aca_res.final_df) : e[1] # e[2]

\* the raw records of a batch, items and their citations, as
\* [uid, title] pairs
RawRecords(d) ==
    {[uid |-> d[k].article_id, title |-> d[k].title] : k \in DOMAIN d}
    \cup UNION { {[uid |-> d[k].citations[c].result_id, title |-> d[k].citations[c].title]
                    : c \in DOMAIN d[k].citations} : k \in DOMAIN d }

\* C13: when a raw record of the batch fails the validation of Article,
\* process_articles still returns, no row of its table comes from the bad
\* record, and every other record of the batch is in the table (under its
\* normalized title).
C13_BadRecordDoesNotAbort ==
    (m_pc # "start" /\ \E b \in RawRecords(data) : ~ArticleValid(b.uid, b.title)) =>
        /\ ~art_res.raised
        /\ \A r \in Range(art_res.final_df) : r.title # NullTitle
        /\ \A v \in RawRecords(data) :
              ArticleValid(v.uid, v.title) =>
                  \E r \in Range(art_res.final_df) :
                      normalize_title_serp(r.title) = normalize_title_serp(v.title)

(***************************************************************************)
(* Further claims about process_authors (SpecAuthors).                     *)
(***************************************************************************)
\* the orderings of the rows of a table
RowOrders(t) == {[i \in DOMAIN t |-> t[p[i]]] : p \in Perms(DOMAIN t)}

\* C14: the merged authors table is the same set of records for every order
\* in which the new author records are visited and every order of the rows
\* of the existing table.
C14_OrderIndependent ==
    a_pc \in {"merged", "rerun"} =>
        \A order \in Perms(batch_authors(data)) :
            \A existing \in RowOrders(existing_authors) :
                Range(process_authors(order, existing).merged_df) = Range(a_res.merged_df)

\* the uid rule of gather_authors.py: the ORCID id when there is one, else
\* the Google Scholar id
UidRule(r) == r.uid = (IF r.orcid_id # None THEN r.orcid_id ELSE r.google_scholar_id)

\* C15: when every row of the existing authors table has uid = orcid_id if
\* orcid_id is non-null and uid = google_scholar_id otherwise, every row of
\* the merged table of process_authors has as well.
C15_UidIsOrcidElseScholar ==
    (a_pc \in {"merged", "rerun"} /\ \A e \in Range(existing_authors) : UidRule(e)) =>
        \A r \in Range(a_res.merged_df) : UidRule(r)

(***************************************************************************)
(* data_sources/orcid.py, get_author_affiliations, and utils.py,           *)
(* generate_unique_id.  A position of the record is                        *)
(* [name, identifier, source, start_year, end_year]: the texts of          *)
(* common:organization/common:name, common:disambiguated-organization-     *)
(* identifier and common:disambiguation-source and the years of its dates, *)
(* each <<>> when the element is missing or empty and <<value>> otherwise. *)
(***************************************************************************)
\* schemas.py lines 8-10
OrganizationIdSource == {"LEI", "FUNDREF", "GRID", "RINGGOLD", "ROR", "sha256"}

\* utils.py lines 72-75: hashlib.sha256(name.encode("utf-8")).hexdigest()[:8],
\* tabulated for the organization names of the model
generate_unique_id(name) ==
    CASE name = "EPFL" -> "3e591a20"
      [] name = "CERN" -> "2e339436"
      [] name = "ETHZ" -> "8ec8ee5b"

\* orcid.py lines 93-107, for a date that gives its year only
extract_affiliation_date(year) ==
    IF year = <<>> THEN <<>> ELSE <<year[1], 1, 1>>

\* lines 420-426: a position without organization name is skipped
NamedPositions(record) == SelectSeq(record, LAMBDA p : p.name # <<>>)

\* lines 431-437
org_id(p) ==
    IF p.identifier # <<>> THEN p.identifier[1] ELSE generate_unique_id(p.name[1])

\* lines 439-446
org_source(p) ==
    IF p.source # <<>> THEN p.source[1] ELSE "sha256"

\* lines 419-465.  raised: Institution(...) at line 448 raises
\* ValidationError for a source outside OrganizationIdSource.
get_author_affiliations(orcidid, record) ==
    LET positions == NamedPositions(record)
    IN  IF \E p \in Range(positions) : org_source(p) \notin OrganizationIdSource
        THEN [raised |-> TRUE, institutions |-> <<>>, affiliations |-> <<>>]
        ELSE [raised |-> FALSE,
              institutions |->
                  [k \in DOMAIN positions |->
                      [uid |-> org_id(positions[k]),
                       name |-> positions[k].name[1],
                       organization_id |-> org_id(positions[k]),
                       organization_id_source |-> org_source(positions[k])]],
              affiliations |->
                  [k \in DOMAIN positions |->
                      [author_uid |-> orcidid,
                       institution_uid |-> org_id(positions[k]),
                       start_date |-> extract_affiliation_date(positions[k].start_year),
                       end_date |-> extract_affiliation_date(positions[k].end_year)]]]

Positions ==
    [name : {<<>>, <<"EPFL">>, <<"CERN">>},
     identifier : {<<>>, <<"grid.5333.6">>},
     source : {<<>>, <<"GRID">>, <<"ISNI">>},
     start_year : {<<>>, <<2020>>},
     end_year : {<<>>}]

OrcidRecords == UNION { [1..l -> Positions] : l \in 0..MaxPositions }

OrcidInit ==
    /\ orcid_record \in OrcidRecords
    /\ aff_res = NoAffiliations
    /\ aff_first = NoAffiliations
    /\ aff_calls = 0
    /\ NormIdle
    /\ RetryIdle
    /\ MoreIdle
    /\ CombineIdle
    /\ MainIdle
    /\ LoaderIdle
    /\ CheckpointIdle

\* gather_authors.py line 128 / orcid.py line 363: one call on the record
GetAuthorAffiliations ==
    /\ aff_calls < MaxCalls
    /\ aff_res' = get_author_affiliations("o1", orcid_record)
    /\ aff_first' = IF aff_calls = 0 THEN aff_res' ELSE aff_first
    /\ aff_calls' = aff_calls + 1
    /\ UNCHANGED <<orcid_record, outsideOrcid>>

OrcidNext == GetAuthorAffiliations

SpecOrcid == OrcidInit /\ [][OrcidNext]_vars

\* C16: every Institution produced for a position without disambiguated
\* organization identifier has organization_id_source 'sha256' and uid =
\* organization_id = generate_unique_id(organization name), 8 characters
\* long, and a second call on the same record returns the same.
C16_FallbackIdIsNameHash ==
    /\ (aff_calls >= 1 /\ ~aff_res.raised) =>
          \A k \in DOMAIN NamedPositions(orcid_record) :
              LET p == NamedPositions(orcid_record)[k]
                  inst == aff_res.institutions[k]
              IN  p.identifier = <<>> =>
                      /\ inst.organization_id_source = "sha256"
                      /\ inst.uid = generate_unique_id(p.name[1])
                      /\ inst.organization_id = inst.uid
                      /\ Len(inst.uid) = 8
    /\ aff_calls >= 2 => aff_res = aff_first

(***************************************************************************)
(* Further claims about the loader (SpecLoader).                           *)
(***************************************************************************)
SpecialLabels == {"BBP_Thesis", "Unpublished_Article", "Book"}

\* the nodes of articles, whatever label the statement left them with
ArticleNodes == {n \in nodes : n.labels \cap ({"Article"} \cup SpecialLabels) # {}}

\* the batch_process call of the articles of this run is over
ArticlesLoaded == l_pc \in 2..9 \/ (l_pc = 0 /\ l_loads >= 1)

\* the batch_process call of the citation rows of this run is over
CitationsLoaded == l_pc \in 5..9 \/ (l_pc = 0 /\ l_loads >= 1)

ThesisPredicate(article) == article.is_bbp /\ Contains(article.url, epfl)

UnpublishedPredicate(article) == article.source = "csv" /\ article.publication_date = None

BookPredicate(article) == Contains(article.url, book) \/ Contains(article.url, chapter)

(***************************************************************************)
(* utils.py, normalize_title, and the runs of the three normalizers.       *)
(***************************************************************************)
\* string.punctuation, as far as the alphabet of the model goes
Punctuation == {"\"", "'", "-", ".", "_"}

\* utils.py line 100: the length a key is cut to
TitleKeyLen == 30

\* str.strip(string.punctuation + string.whitespace)
RECURSIVE strip_punctuation(_)
strip_punctuation(s) ==
    IF s # <<>> /\ Head(s) \in Punctuation \cup Whitespace THEN strip_punctuation(Tail(s))
    ELSE IF s # <<>> /\ s[Len(s)] \in Punctuation \cup Whitespace
         THEN strip_punctuation(SubSeq(s, 1, Len(s) - 1))
         ELSE s

\* text[:n]
Prefix(s, n) == SubSeq(s, 1, IF Len(s) < n THEN Len(s) ELSE n)

\* lines 93-100 without the lower() of line 97
normalize_title_keep_case(text) ==
    LET letters == SelectSeq(text, LAMBDA c : c \in LowerLetters \cup UpperLetters \cup Whitespace)
        joined == SelectSeq(letters, LAMBDA c : c \notin Whitespace)
    IN  strip_punctuation(Prefix(strip_punctuation(joined), TitleKeyLen))

\* utils.py lines 93-100
normalize_title(text) ==
    LET letters == SelectSeq(text, LAMBDA c : c \in LowerLetters \cup UpperLetters \cup Whitespace)
        joined == SelectSeq(letters, LAMBDA c : c \notin Whitespace)
        lowered == str_lower(joined)
    IN  strip_punctuation(Prefix(strip_punctuation(lowered), TitleKeyLen))

\* n times the letter a
Pad(n) == [i \in 1..n |-> "a"]

TextCores ==
    { <<"a", "b">>, <<"A", "b">>, <<"a", "-", "b">>, <<"a", " ", "b">>, <<"a", "_", "B">>,
      <<"a", "'", "B", " ", "c">>, <<>>,
      Pad(MaxPad - 2) \o <<"b", "c">>,
      Pad(MaxPad - 2) \o <<"B", ".", "c">>,
      Pad(MaxPad - 2) \o <<" ", "b", "C">>,
      Pad(MaxPad - 1) \o <<"_", "b">>,
      Pad(MaxPad) }

TextEnds == { <<>>, <<" ">>, <<".", " ">>, <<" ", "_">> }

\* the strings handed to the normalizers
Texts == { pre \o core \o post : pre \in TextEnds, core \in TextCores, post \in TextEnds }

NormInit ==
    /\ nt_text \in Texts
    /\ nt_res = NotNormalized
    /\ nt_pc = "start"
    /\ OrcidIdle
    /\ RetryIdle
    /\ MoreIdle
    /\ CombineIdle
    /\ MainIdle
    /\ LoaderIdle
    /\ CheckpointIdle

\* each normalizer applied to the string, and applied again to its result
Normalize ==
    /\ nt_pc = "start"
    /\ nt_res' =
          [title |-> normalize_title(nt_text),
           title_twice |-> normalize_title(normalize_title(nt_text)),
           serp_title |-> normalize_title_serp(nt_text),
           serp_title_twice |-> normalize_title_serp(normalize_title_serp(nt_text)),
           author_name |-> normalize_author_name(nt_text),
           author_name_twice |-> normalize_author_name(normalize_author_name(nt_text))]
    /\ nt_pc' = "done"
    /\ UNCHANGED <<nt_text, outsideNorm>>

NormNext == Normalize

SpecNormalize == NormInit /\ [][NormNext]_vars

\* a title without its punctuation, in lower case, without surrounding
\* white space: two titles with the same skeleton differ only in letter
\* case, punctuation and leading or trailing white space
Skeleton(t) == strip(str_lower(SelectSeq(t, LAMBDA c : c \notin Punctuation)))

\* C18: normalize_title of utils.py gives the same key for any two titles
\* that differ only in letter case, punctuation or surrounding white space,
\* and the key is at most 30 characters long.
C18_SameKeyForVariants ==
    nt_pc = "done" =>
        /\ Len(nt_res.title) <= 30
        /\ \A t \in Texts : Skeleton(t) = Skeleton(nt_text) => normalize_title(t) = nt_res.title

\* a title of more than 30 letters was normalized, and another title of the
\* domain differs from it in case, punctuation and white space only
C18_Witness ==
    /\ nt_pc = "done"
    /\ Len(nt_res.title) = 30
    /\ \E c \in DOMAIN nt_text : nt_text[c] \in UpperLetters
    /\ \E t \in Texts :
          /\ Skeleton(t) = Skeleton(nt_text)
          /\ str_lower(t) # str_lower(nt_text)
          /\ Len(t) # Len(nt_text)

\* C19: each of the three normalizers, applied to its own result, returns
\* that result.
C19_NormalizersIdempotent ==
    nt_pc = "done" =>
        /\ nt_res.title_twice = nt_res.title
        /\ nt_res.serp_title_twice = nt_res.serp_title
        /\ nt_res.author_name_twice = nt_res.author_name

\* the string was changed by each of the three normalizers
C19_Witness ==
    /\ nt_pc = "done"
    /\ nt_res.title # nt_text
    /\ nt_res.serp_title # nt_text
    /\ nt_res.author_name # nt_text
    /\ nt_res.author_name # nt_res.serp_title
    /\ nt_res.title # nt_res.serp_title

(***************************************************************************)
(* utils.py, get_with_waiting.  One GET (httpx.get followed by             *)
(* raise_for_status) gives a response or raises an exception of the        *)
(* HTTPError family, which the except clause of line 50 catches.  g_log    *)
(* records what the call did: "ok" for a GET that gave a response, the     *)
(* error for a GET that raised, "sleep" for a time.sleep(wait).            *)
(***************************************************************************)
RequestErrors == {"e1", "e2"}

\* the test never holds
is_last_attempt_never(i, n) == FALSE

\* line 52: i == retry_times - 1
is_last_attempt(i, n) == i = n - 1

RetryInit ==
    /\ retry_times \in 0..MaxRetry
    /\ g_i = 0
    /\ g_pc = "get"
    /\ g_log = <<>>
    /\ g_result = "none"
    /\ OrcidIdle
    /\ NormIdle
    /\ MoreIdle
    /\ CombineIdle
    /\ MainIdle
    /\ LoaderIdle
    /\ CheckpointIdle

\* lines 47-49: the GET of iteration i gives a response, which is returned
GetSucceeds ==
    /\ g_pc = "get"
    /\ g_i < retry_times
    /\ g_log' = Append(g_log, "ok")
    /\ g_result' = "response"
    /\ g_pc' = "returned"
    /\ UNCHANGED <<retry_times, g_i, outsideRetry>>

\* lines 47-53: the GET of iteration i raises; the error is raised again in
\* the last iteration, otherwise the call goes to sleep
GetFails ==
    /\ g_pc = "get"
    /\ g_i < retry_times
    /\ \E e \in RequestErrors :
          /\ g_log' = Append(g_log, e)
          /\ IF is_last_attempt(g_i, retry_times)
             THEN g_result' = e /\ g_pc' = "raised"
             ELSE g_result' = g_result /\ g_pc' = "sleep"
    /\ UNCHANGED <<retry_times, g_i, outsideRetry>>

\* line 54 and the next turn of the loop of line 45
Sleep ==
    /\ g_pc = "sleep"
    /\ g_log' = Append(g_log, "sleep")
    /\ g_i' = g_i + 1
    /\ g_pc' = "get"
    /\ UNCHANGED <<retry_times, g_result, outsideRetry>>

\* line 55: the loop is over without return or raise
RaiseMaximumRetries ==
    /\ g_pc = "get"
    /\ g_i >= retry_times
    /\ g_result' = "Exception"
    /\ g_pc' = "raised"
    /\ UNCHANGED <<retry_times, g_i, g_log, outsideRetry>>

RetryNext == GetSucceeds \/ GetFails \/ Sleep \/ RaiseMaximumRetries

SpecRetry == RetryInit /\ [][RetryNext]_vars

Attempts == SelectSeq(g_log, LAMBDA x : x # "sleep")

Failures == SelectSeq(g_log, LAMBDA x : x \in RequestErrors)

CallOver == g_pc \in {"returned", "raised"}

\* at most retry_times GETs; a response ends the call and is returned; a
\* failed GET that is followed by anything is followed by a sleep
AttemptsReturnAndWait ==
    /\ Len(Attempts) <= retry_times
    /\ \A k \in DOMAIN g_log : g_log[k] = "ok" => k = Len(g_log) /\ g_pc = "returned"
    /\ g_pc = "returned" => g_log # <<>> /\ g_log[Len(g_log)] = "ok" /\ g_result = "response"
    /\ \A k \in DOMAIN g_log :
          (g_log[k] \in RequestErrors /\ k < Len(g_log)) => g_log[k + 1] = "sleep"
    /\ \A k \in DOMAIN g_log : (g_log[k] = "sleep" /\ k > 1) => g_log[k - 1] \in RequestErrors

\* a request error is raised exactly when all retry_times attempts failed,
\* and it is the last one caught
RaisesLastErrorIffAllFailed ==
    CallOver =>
        /\ (g_pc = "raised" /\ g_result \in RequestErrors) <=> (Len(Failures) = retry_times)
        /\ (g_pc = "raised" /\ g_result \in RequestErrors) => g_result = g_log[Len(g_log)]

\* C20 as stated: at most retry_times GETs, the first response is returned
\* at once, a sleep separates a failed GET from the next, and the last caught
\* request error is raised exactly when all retry_times attempts fail.
C20_RetryContract ==
    AttemptsReturnAndWait /\ RaisesLastErrorIffAllFailed

\* C20 amended: the same for retry_times >= 1; with retry_times = 0 no GET
\* is made and the call raises Exception("Maximum retries reached").
C20_RetryContractFromOne ==
    /\ AttemptsReturnAndWait
    /\ retry_times >= 1 => RaisesLastErrorIffAllFailed
    /\ (retry_times = 0 /\ CallOver) =>
          g_log = <<>> /\ g_pc = "raised" /\ g_result = "Exception"

\* all of three or more attempts failed, with different errors, and the
\* last one was raised
C20_Witness ==
    /\ retry_times >= 3
    /\ g_pc = "raised"
    /\ Len(Failures) = retry_times
    /\ g_result = "e2"
    /\ \E k \in DOMAIN Failures : Failures[k] = "e1"

(***************************************************************************)
(* Further claims about process_articles (SpecArticles).                   *)
(***************************************************************************)
\* C24: when process_articles returns, a new SERP article and an existing
\* article whose titles differ only in case, punctuation or surrounding
\* white space are one row of the table: it carries the existing uid, and no
\* row carries the uid of the new article.
C24_TitleVariantsAreOneEntity ==
    (ArticlesRunDone /\ ~art_res.raised /\ m_pc # "start") =>
        \A l \in Range(NewArticles) : \A r \in Range(existing_articles.rows) :
            Skeleton(l.title) = Skeleton(r.title) =>
                /\ Cardinality({i \in DOMAIN art_res.final_df :
                                   art_res.final_df[i].uid = r.uid}) = 1
                /\ \A x \in Range(art_res.final_df) : x.uid # l.uid

(***************************************************************************)
(* Further claims about the labels and the citation edges (SpecLoader).    *)
(***************************************************************************)
\* C28: once batch_add_articles has been called on the articles, every
\* article of the batch that is no thesis, has source 'csv' and no
\* publication date is a node carrying Unpublished_Article, and every article
\* of the batch whose url holds 'book' or 'chapter' and that no node carries
\* as BBP_Thesis or Unpublished_Article is a node carrying Book.
C28_UnpublishedAndBookLabels ==
    ArticlesLoaded =>
        \A article \in Range(dataset.articles) :
            /\ (~ThesisPredicate(article) /\ UnpublishedPredicate(article)) =>
                   \E n \in ArticleNodes : /\ n.uid = article.uid
                                            /\ "Unpublished_Article" \in n.labels
            /\ (/\ BookPredicate(article)
                /\ \A n \in ArticleNodes :
                       n.uid = article.uid =>
                           n.labels \cap {"BBP_Thesis", "Unpublished_Article"} = {}) =>
                   \E n \in ArticleNodes : n.uid = article.uid /\ "Book" \in n.labels

\* the loaded articles: the articles batch_add_articles was called on
LoadedUids == {article.uid : article \in Range(dataset.articles)}

\* C30: once the articles and then the citation edges are loaded, every
\* citation row whose source and target are loaded articles is an
\* ARTICLE_CITES_ARTICLE edge between the nodes of the two articles,
\* whatever labels the nodes carry.
C30_CitationEdgesBetweenLoadedArticles ==
    CitationsLoaded =>
        \A c \in Range(dataset.article_cites_article) :
            (c.source \in LoadedUids /\ c.target \in LoadedUids) =>
                \E s \in ArticleNodes : \E t \in ArticleNodes :
                    /\ s.uid = c.source
                    /\ t.uid = c.target
                    /\ \E e \in edges : /\ e.type = "ARTICLE_CITES_ARTICLE"
                                        /\ e.src = s.id
                                        /\ e.dst = t.id

(***************************************************************************)
(* Further claims about process_authors (SpecAuthors).                     *)
(***************************************************************************)
\* C29: for every (google_scholar_id, name) record of the batch whose
\* google_scholar_id is not empty, the merged table of process_authors has
\* a record with that google_scholar_id.
C29_NoNewAuthorLost ==
    a_pc \in {"merged", "rerun"} =>
        \A i \in DOMAIN a_order :
            a_order[i].google_scholar_id \notin {None, ""} =>
                \E r \in Range(a_res.merged_df) :
                    r.google_scholar_id = a_order[i].google_scholar_id

(***************************************************************************)
(* The loads of a dataset of authors, institutions and affiliations:       *)
(* every author of the table may be affiliated with every institution,     *)
(* with one of the start dates or none, and one pair may have two rows.    *)
(***************************************************************************)
MaxAuthorNodes == 2
MaxInstitutionNodes == 2

AuthorNodeUids == <<"u1", "u2">>
InstitutionNodeUids == <<"i1", "i2">>

\* the rows of author_affiliated_with_institution.csv for the pairs of a
\* set: one row per pair, in the order of the pairs
RECURSIVE AffiliationRows(_, _)
AffiliationRows(pairs, date) ==
    IF pairs = {} THEN <<>>
    ELSE LET q == CHOOSE x \in pairs :
                      \A y \in pairs : x[1] < y[1] \/ (x[1] = y[1] /\ x[2] <= y[2])
         IN  << [author |-> AuthorNodeUids[q[1]], institution |-> InstitutionNodeUids[q[2]],
                 start_date |-> date[q], end_date |-> None] >>
             \o AffiliationRows(pairs \ {q}, date)

\* a further row for one of the pairs: an author with two positions at one
\* institution has two rows of the table for the pair
FurtherRows(pairs) ==
    {<<>>} \cup
    { << [author |-> AuthorNodeUids[q[1]], institution |-> InstitutionNodeUids[q[2]],
          start_date |-> d, end_date |-> None] >>
      : q \in pairs, d \in Range(StartDates) \cup {None} }

AffiliationDatasets ==
    UNION { UNION { UNION {
        { [articles |-> <<>>,
           authors |-> [k \in 1..na |-> [uid |-> AuthorNodeUids[k], orcid_id |-> AuthorNodeUids[k],
                                          name |-> "n1", google_scholar_id |-> None]],
           institutions |-> [k \in 1..ni |-> [uid |-> InstitutionNodeUids[k], name |-> "n2",
                                               organization_id |-> "r1",
                                               organization_id_source |-> "ROR"]],
           article_cites_article |-> <<>>,
           author_affiliated_with_institution |-> AffiliationRows(pairs, date) \o further,
           author_wrote_article |-> <<>>]
          : date \in [pairs -> Range(StartDates) \cup {None}], further \in FurtherRows(pairs) }
        : pairs \in SUBSET ((1..na) \X (1..ni)) }
        : ni \in 1..MaxInstitutionNodes }
        : na \in 1..MaxAuthorNodes }

AffiliationInit ==
    /\ dataset \in AffiliationDatasets
    /\ constraints = FALSE
    /\ nodes = {}
    /\ edges = {}
    /\ next_id = 1
    /\ l_pc = 0
    /\ l_loads = 0
    /\ CombineIdle
    /\ MainIdle
    /\ CheckpointIdle
    /\ UtilIdle

SpecAffiliation == AffiliationInit /\ [][LoaderNext]_vars

(***************************************************************************)
(* neo4j/utils.py: the functions that delete a part of the graph.  No      *)
(* script of the repository calls them; a caller of the package applies    *)
(* them to the database between two runs of integrate_batch.               *)
(***************************************************************************)
NodeLabels == {"Article", "Author", "Institution"}

RelationshipTypes ==
    {"ARTICLE_CITES_ARTICLE", "AFFILIATED_WITH", "WROTE", "AUTHOR_CITES_ARTICLE",
     "INSTITUTION_CITES_ARTICLE"}

\* utils.py lines 113-127
RemoveSelfLoopsOfType ==
    /\ l_pc \in {0, 10}
    /\ \E rel_type \in RelationshipTypes :
           edges' = remove_self_loops_of_type(nodes, edges, rel_type).edges
    /\ UNCHANGED <<dataset, constraints, nodes, next_id, l_pc, l_loads, outsideLoader>>

\* utils.py lines 130-143
RemoveRelationshipType ==
    /\ l_pc \in {0, 10}
    /\ \E relationship \in RelationshipTypes :
           edges' = remove_relationship_type(nodes, edges, relationship).edges
    /\ UNCHANGED <<dataset, constraints, nodes, next_id, l_pc, l_loads, outsideLoader>>

\* utils.py lines 146-157
RemoveNodeType ==
    /\ l_pc \in {0, 10}
    /\ \E label \in NodeLabels :
           LET graph == remove_node_type(nodes, edges, label)
           IN  nodes' = graph.nodes /\ edges' = graph.edges
    /\ UNCHANGED <<dataset, constraints, next_id, l_pc, l_loads, outsideLoader>>

GraphUtilsNext ==
    \/ LoaderNext
    \/ RemoveSelfLoopsOfType
    \/ RemoveRelationshipType
    \/ RemoveNodeType

SpecGraphUtils == AffiliationInit /\ [][GraphUtilsNext]_vars

\* the AFFILIATED_WITH relationships of an author node
AffiliationsOf(a) == {e \in edges : e.type = "AFFILIATED_WITH" /\ e.src = a.id}

CurrentOf(a) == {e \in AffiliationsOf(a) : Prop(e, "current") = "true"}

AfterSetCurrentAffiliation == l_loads >= 1 /\ l_pc = 0

\* C21: after set_current_affiliation every author has at most one
\* AFFILIATED_WITH relationship with current = true; that relationship has a
\* start_date, and no dated relationship of the author has a later one; every
\* other relationship of the author has current = false.
C21_OneCurrentAffiliationTheLatest ==
    AfterSetCurrentAffiliation =>
        \A a \in {n \in nodes : "Author" \in n.labels} :
            /\ Cardinality(CurrentOf(a)) <= 1
            /\ \A e \in CurrentOf(a) :
                  /\ Prop(e, "start_date") # None
                  /\ \A f \in AffiliationsOf(a) :
                        Prop(f, "start_date") # None =>
                            start_date_order(Prop(f, "start_date"))
                                <= start_date_order(Prop(e, "start_date"))
            /\ \A e \in AffiliationsOf(a) \ CurrentOf(a) : Prop(e, "current") = "false"

\* an author with an earlier and a later affiliation, the later one current,
\* next to an author whose only affiliation has no start date
C21_Witness ==
    /\ AfterSetCurrentAffiliation
    /\ \E a \in nodes : \E e \in CurrentOf(a) : \E f \in AffiliationsOf(a) :
          /\ Prop(f, "start_date") # None
          /\ start_date_order(Prop(f, "start_date")) < start_date_order(Prop(e, "start_date"))
    /\ \E a \in nodes : /\ AffiliationsOf(a) # {}
                        /\ \A e \in AffiliationsOf(a) : Prop(e, "start_date") = None

(***************************************************************************)
(* data_sources/europmc.py, fetch_citation_ids.  A response of Europe PMC  *)
(* is [parsed, hitCount, ids]: whether parse_xml returns an element, the   *)
(* text of its hitCount and the texts of its citationList/citation/id.     *)
(***************************************************************************)
MaxHits == 3

\* n // p, the pages that are full
floor_div(n, p) == n \div p

\* line 282: math.ceil(num_citations / page_size)
ceil_div(n, p) == IF n % p = 0 THEN n \div p ELSE (n \div p) + 1

\* lines 303-307: the ids other than europmc_id
without_id(ids, id) == SelectSeq(ids, LAMBDA c : c # id)

CitationIdPool == {"e1", "e2", "e3"}

\* what a page may hold
PageIds == {<<>>, <<"e1", "e2">>, <<"e3">>, <<"e2", "e1">>}

Responses ==
    {[parsed |-> FALSE, hitCount |-> 0, ids |-> <<>>]}
    \cup [parsed : {TRUE}, hitCount : 0..MaxHits, ids : PageIds]

FetchInit ==
    /\ europmc_id \in {"e1", "e4"}
    /\ page_size \in 1..2
    /\ fc_responses \in [1..MaxHits -> Responses]
    /\ \A k \in 2..MaxHits :
           fc_responses[k].parsed => fc_responses[k].hitCount = fc_responses[1].hitCount
    /\ fc_requested = <<>>
    /\ fc_pages = 0
    /\ citation_ids = <<>>
    /\ fc_pc = "first"
    /\ fc_result = NotReturned
    /\ OutsideFetchIdle

\* lines 274-286: the request of page 1
FetchFirstPage ==
    /\ fc_pc = "first"
    /\ fc_requested' = <<1>>
    /\ LET root == fc_responses[1]
       IN  IF ~root.parsed
           THEN /\ fc_result' = [kind |-> "None", ids |-> <<>>]
                /\ fc_pc' = "returned"
                /\ UNCHANGED <<fc_pages, citation_ids>>
           ELSE IF root.hitCount = 0
           THEN /\ fc_result' = [kind |-> "list", ids |-> <<>>]
                /\ fc_pc' = "returned"
                /\ UNCHANGED <<fc_pages, citation_ids>>
           ELSE /\ fc_pages' = ceil_div(root.hitCount, page_size)
                /\ citation_ids' = root.ids
                /\ fc_pc' = "pages"
                /\ UNCHANGED fc_result
    /\ UNCHANGED <<europmc_id, page_size, fc_responses, outsideFetch>>

\* lines 287-301: one turn of the loop over the pages 2..pages
FetchNextPage ==
    /\ fc_pc = "pages"
    /\ Len(fc_requested) < fc_pages
    /\ LET page == Len(fc_requested) + 1
           root == fc_responses[page]
       IN  /\ fc_requested' = Append(fc_requested, page)
           /\ citation_ids' = IF root.parsed THEN citation_ids \o root.ids ELSE citation_ids
    /\ UNCHANGED <<europmc_id, page_size, fc_responses, fc_pages, fc_pc, fc_result, outsideFetch>>

\* lines 302-308
ReturnCitationIds ==
    /\ fc_pc = "pages"
    /\ Len(fc_requested) >= fc_pages
    /\ fc_result' = [kind |-> "list", ids |-> without_id(citation_ids, europmc_id)]
    /\ fc_pc' = "returned"
    /\ UNCHANGED <<europmc_id, page_size, fc_responses, fc_requested, fc_pages, citation_ids,
                   outsideFetch>>

FetchNext ==
    \/ FetchFirstPage
    \/ FetchNextPage
    \/ ReturnCitationIds

SpecFetch == FetchInit /\ [][FetchNext]_vars

\* the ids of the pages 1..n, page after page
RECURSIVE IdsOfPages(_)
IdsOfPages(n) ==
    IF n = 0 THEN <<>>
    ELSE IdsOfPages(n - 1) \o (IF fc_responses[n].parsed THEN fc_responses[n].ids ELSE <<>>)

HitCount == fc_responses[1].hitCount

\* what the call returns, given the number of result pages it requests
FetchContract(requests) ==
    /\ fc_requested = [k \in 1..requests |-> k]
    /\ fc_result.kind = "list"
    /\ \A k \in DOMAIN fc_result.ids : fc_result.ids[k] # europmc_id
    /\ fc_result.ids = SelectSeq(IdsOfPages(ceil_div(HitCount, page_size)),
                                 LAMBDA c : c \in CitationIdPool \ {europmc_id})
    /\ HitCount = 0 => fc_result.ids = <<>>

\* C23: when fetch_citation_ids has returned, it has requested the pages
\* 1..ceil(hitCount / page_size) and no other, and it returns the list of
\* the citation ids of these pages in page order without the id of the
\* queried article, the empty list when hitCount is 0.
C23_PagesAndIds ==
    fc_pc = "returned" => FetchContract(ceil_div(HitCount, page_size))

\* C23, with the request that finds hitCount: when fetch_citation_ids has
\* returned and the first page could be parsed, it has requested the pages
\* 1..max(1, ceil(hitCount / page_size)) and no other, and it returns the
\* list of the citation ids of the pages that could be parsed, in page
\* order, without the id of the queried article, the empty list when
\* hitCount is 0; when the first page could not be parsed it has requested
\* that page only and returns None.
C23_PagesAndIdsAfterFirstPage ==
    fc_pc = "returned" =>
        IF fc_responses[1].parsed
        THEN FetchContract(IF HitCount = 0 THEN 1 ELSE ceil_div(HitCount, page_size))
        ELSE fc_requested = <<1>> /\ fc_result.kind = "None"

\* three hits on three pages of size one: the second page cannot be parsed
\* and is skipped, the third holds ids, the queried article among those read
C23_Witness ==
    /\ fc_pc = "returned"
    /\ page_size = 1
    /\ HitCount = 3
    /\ fc_requested = <<1, 2, 3>>
    /\ ~fc_responses[2].parsed
    /\ fc_responses[3].parsed
    /\ fc_responses[3].ids # <<>>
    /\ \E k \in DOMAIN citation_ids : citation_ids[k] = europmc_id
    /\ fc_result.ids # <<>>

(***************************************************************************)
(* scripts/gather_articles.py, main and set_article.  A publication is     *)
(* [title, is_published]; Europe PMC is the set of the elements            *)
(* [id, title] its searches return, and for every id the value of          *)
(* fetch_citation_ids, [kind, ids].                                        *)
(***************************************************************************)
MaxPublications == 2

GatherTitles == {<<"a", "b">>, <<"A", "b", ".">>, <<"c", "d">>, <<"a", "'", "b">>}

\* utils.py lines 72-75, tabulated for the titles of the model
title_unique_id(title) ==
    CASE title = <<"a", "b">> -> "fb8e20fc"
      [] title = <<"A", "b", ".">> -> "a0392ede"
      [] title = <<"c", "d">> -> "21e721c3"
      [] title = <<"a", "'", "b">> -> "c6654bf7"

\* the order of str on the uids of the model
UidOrder == <<"21e721c3", "a0392ede", "c6654bf7", "e1", "e2", "e3", "fb8e20fc">>

uid_order(uid) == CHOOSE k \in DOMAIN UidOrder : UidOrder[k] = uid

\* DataFrame.sort_values on a key with the order above
RECURSIVE sort_values(_, _, _)
sort_values(rows, key(_), k) ==
    IF k > Len(UidOrder) THEN <<>>
    ELSE SelectSeq(rows, LAMBDA r : key(r) = k) \o sort_values(rows, key, k + 1)

\* line 185: drop_duplicates(subset=["Title"]), the first row of a title stays
drop_duplicates_Title(rows) ==
    LET marked == [i \in DOMAIN rows |->
                      [row |-> rows[i],
                       first |-> \A j \in 1..(i - 1) : rows[j].title # rows[i].title]]
        kept == SelectSeq(marked, LAMBDA x : x.first)
    IN  [i \in DOMAIN kept |-> kept[i].row]

\* europmc.py lines 312-375, for a publication without DOI and ISBN: the
\* first result of the title search with the same normalized title
fetch_article_element(title, elements) ==
    {e \in elements : normalize_title(e.title) = normalize_title(title)}

GatherPublications ==
    UNION {[1..n -> [title : GatherTitles, is_published : BOOLEAN]] : n \in 1..MaxPublications}

\* the ORCID ids of the authorIdList of an element (europmc.py lines 247-252)
OrcidIdLists == {<<>>, <<"o1">>, <<"o2", "o1">>}

EuroPmcElements ==
    { found \in SUBSET ([id : {"e1"}, title : {<<"a", "b">>}, orcid_ids : OrcidIdLists]
                       \cup [id : {"e2"}, title : {<<"c", "d">>}, orcid_ids : {<<>>}]) :
          \A x \in found : \A y \in found : x.id = y.id => x = y }

CitationResponses ==
    {[kind |-> "None", ids |-> <<>>]}
    \cup [kind : {"list"}, ids : {<<>>, <<"e3">>, <<"e3", "e3">>, <<"e2">>}]

GatherInit ==
    /\ bbp_publications \in GatherPublications
    /\ europmc_elements \in EuroPmcElements
    /\ citation_responses \in [{"e1", "e2"} -> CitationResponses]
    /\ serp_article_map \in SUBSET {<<"c", "d">>}
    /\ ga_pc = "read"
    /\ uids = <<>>
    /\ bbp_articles = <<>>
    /\ europmc_ids = <<>>
    /\ ga_next = 1
    /\ article_cites_article = <<>>
    /\ author_wrote_article = <<>>
    /\ articles_csv = NotWritten
    /\ article_cites_article_csv = NotWritten
    /\ OutsideGatherIdle

\* lines 171-204: the three tables are concatenated, the rows of a title
\* seen before are dropped
ReadPublications ==
    /\ ga_pc = "read"
    /\ bbp_publications' = drop_duplicates_Title(bbp_publications)
    /\ ga_pc' = "articles"
    /\ UNCHANGED <<europmc_elements, citation_responses, serp_article_map, uids, bbp_articles,
                   europmc_ids, ga_next, article_cites_article, author_wrote_article,
                   articles_csv, article_cites_article_csv, outsideGather>>

GatherArticle(uid, title, source) == [uid |-> uid, title |-> title, source |-> source]

\* lines 207-247 and set_article, lines 27-137: one turn of the loop over
\* the publications
SetArticle ==
    /\ ga_pc = "articles"
    /\ ga_next <= Len(bbp_publications)
    /\ LET row == bbp_publications[ga_next]
           found == fetch_article_element(row.title, europmc_elements)
           id == title_unique_id(row.title)
       IN  IF ~row.is_published
           THEN /\ uids' = Append(uids, id)
                /\ bbp_articles' = Append(bbp_articles, GatherArticle(id, row.title, "csv"))
                /\ UNCHANGED <<europmc_ids, author_wrote_article>>
           ELSE IF found = {}
           THEN IF row.title \in serp_article_map
                THEN /\ uids' = Append(uids, id)
                     /\ bbp_articles' = Append(bbp_articles, GatherArticle(id, row.title, "serp"))
                     /\ UNCHANGED <<europmc_ids, author_wrote_article>>
                ELSE UNCHANGED <<uids, bbp_articles, europmc_ids, author_wrote_article>>
           ELSE \E e \in found :
                    /\ europmc_ids' = Append(europmc_ids, e.id)
                    /\ uids' = Append(uids, e.id)
                    /\ bbp_articles' = Append(bbp_articles, GatherArticle(e.id, row.title, "europmc"))
                    /\ author_wrote_article' =
                           author_wrote_article
                           \o [k \in DOMAIN e.orcid_ids |-> <<e.orcid_ids[k], e.id>>]
    /\ ga_next' = IF ga_next = Len(bbp_publications) THEN 1 ELSE ga_next + 1
    /\ ga_pc' = IF ga_next = Len(bbp_publications) THEN "citations" ELSE "articles"
    /\ UNCHANGED <<bbp_publications, europmc_elements, citation_responses, serp_article_map,
                   article_cites_article, articles_csv, article_cites_article_csv,
                   outsideGather>>

\* europmc.py lines 14-64 and 67-144: the citing ids, each with the article
\* get_article builds for it
get_citations(id, response) ==
    [citations |-> [k \in DOMAIN response.ids |-> <<response.ids[k], id>>],
     citing_articles |-> [k \in DOMAIN response.ids
                             |-> GatherArticle(response.ids[k], <<"x">>, "europmc")]]

\* lines 256-259: the citing articles whose uid is not in uids yet
RECURSIVE add_citing_articles(_, _)
add_citing_articles(state, citing) ==
    IF citing = <<>> THEN state
    ELSE add_citing_articles(
             IF \E k \in DOMAIN state.uids : state.uids[k] = Head(citing).uid
             THEN state
             ELSE [uids |-> Append(state.uids, Head(citing).uid),
                   articles |-> Append(state.articles, Head(citing))],
             Tail(citing))

\* lines 250-260: one turn of the loop over the Europe PMC ids; get_citations
\* returns None when fetch_citation_ids does, and the unpacking of line 253 raises
ProcessCitations ==
    /\ ga_pc = "citations"
    /\ ga_next <= Len(europmc_ids)
    /\ LET response == citation_responses[europmc_ids[ga_next]]
           got == get_citations(europmc_ids[ga_next], response)
           state == add_citing_articles([uids |-> uids, articles |-> bbp_articles],
                                        got.citing_articles)
       IN  IF response.kind = "None"
           THEN /\ ga_pc' = "raised"
                /\ UNCHANGED <<uids, bbp_articles, article_cites_article, ga_next>>
           ELSE /\ uids' = state.uids
                /\ bbp_articles' = state.articles
                /\ article_cites_article' = article_cites_article \o got.citations
                /\ ga_next' = ga_next + 1
                /\ UNCHANGED ga_pc
    /\ UNCHANGED <<bbp_publications, europmc_elements, citation_responses, serp_article_map,
                   europmc_ids, author_wrote_article, articles_csv, article_cites_article_csv,
                   outsideGather>>

\* lines 266-275: str.replace('"', "") and str.replace("'", "") on a column
remove_quotes(text) == SelectSeq(text, LAMBDA c : c \notin {"\"", "'"})

\* lines 262-289: the titles of the articles lose their quotes, the two
\* tables are sorted and written; a table without rows has no columns, and
\* cleaning or sorting it raises KeyError
WriteTables ==
    /\ ga_pc = "citations"
    /\ ga_next > Len(europmc_ids)
    /\ IF bbp_articles = <<>>
       THEN /\ ga_pc' = "raised"
            /\ UNCHANGED <<articles_csv, article_cites_article_csv>>
       ELSE /\ articles_csv' = [written |-> TRUE,
                                rows |-> sort_values(
                                             [k \in DOMAIN bbp_articles |->
                                                 [bbp_articles[k] EXCEPT
                                                     !.title = remove_quotes(@)]],
                                             LAMBDA r : uid_order(r.uid), 1)]
            /\ IF article_cites_article = <<>>
               THEN /\ ga_pc' = "raised"
                    /\ UNCHANGED article_cites_article_csv
               ELSE /\ ga_pc' = "written"
                    /\ article_cites_article_csv' =
                           [written |-> TRUE,
                            rows |-> sort_values(
                                         sort_values(article_cites_article,
                                                     LAMBDA r : uid_order(r[2]), 1),
                                         LAMBDA r : uid_order(r[1]), 1)]
    /\ UNCHANGED <<bbp_publications, europmc_elements, citation_responses, serp_article_map,
                   uids, bbp_articles, europmc_ids, ga_next, article_cites_article,
                   author_wrote_article, outsideGather>>

\* the order of str on the ORCID ids of the model
OrcidOrder == <<"o1", "o2">>

orcid_order(id) == CHOOSE k \in DOMAIN OrcidOrder : OrcidOrder[k] = id

\* lines 290-296: the rows of author_wrote_article become a DataFrame that
\* is sorted by author_uid and article_uid, and main ends; nothing writes
\* the table.  A list without rows gives a DataFrame without columns, and
\* sort_values raises KeyError.
SortAuthorWroteArticle ==
    /\ ga_pc = "written"
    /\ IF author_wrote_article = <<>>
       THEN /\ ga_pc' = "raised"
            /\ UNCHANGED author_wrote_article
       ELSE /\ ga_pc' = "done"
            /\ author_wrote_article' =
                   sort_values(sort_values(author_wrote_article,
                                           LAMBDA r : uid_order(r[2]), 1),
                               LAMBDA r : orcid_order(r[1]), 1)
    /\ UNCHANGED <<bbp_publications, europmc_elements, citation_responses, serp_article_map,
                   uids, bbp_articles, europmc_ids, ga_next, article_cites_article,
                   articles_csv, article_cites_article_csv, outsideGather>>

GatherNext ==
    \/ ReadPublications
    \/ SetArticle
    \/ ProcessCitations
    \/ WriteTables
    \/ SortAuthorWroteArticle

SpecGather == GatherInit /\ [][GatherNext]_vars

\* C22: the articles.csv that main writes has no two rows with the same
\* uid, and the article_cites_article.csv it writes no two rows with the same
\* source and target.
C22_WrittenTablesHaveNoDuplicates ==
    /\ articles_csv.written =>
          \A i \in DOMAIN articles_csv.rows : \A j \in DOMAIN articles_csv.rows :
              articles_csv.rows[i].uid = articles_csv.rows[j].uid => i = j
    /\ article_cites_article_csv.written =>
          \A i \in DOMAIN article_cites_article_csv.rows :
              \A j \in DOMAIN article_cites_article_csv.rows :
                  article_cites_article_csv.rows[i] = article_cites_article_csv.rows[j] => i = j

(***************************************************************************)
(* scripts/serp_afetch_citations.py, AsyncSerpApiCitationChecker.  One run *)
(* of process_csv is one coroutine; it gives up control at the two GETs of *)
(* make_api_request, the account GET of check_rate_limit and the search.   *)
(* A row of the csv is [title, total, found]: total is the number of       *)
(* results Google Scholar has for "cites", found whether the title search  *)
(* returns the article.  all_citations is the length of the list.  The     *)
(* account has total_searches_left searches; this_hour_searches stays      *)
(* below max_requests_per_hour (line 114).                                 *)
(***************************************************************************)
MaxRows == 2
MaxSearches == 4
MaxRuns == 2

\* lines 302 and 328: "num": 20, and line 386: start += 20
PageNum == 20

\* lines 321-323: the Google limit
GoogleLimit == 1000

\* a later run has searches for every request of every row
AmpleSearches == MaxRows * 4

Min(a, b) == IF a <= b THEN a ELSE b

\* " ".join(words)
RECURSIVE str_join(_)
str_join(words) ==
    IF words = <<>> THEN <<>>
    ELSE IF Len(words) = 1 THEN words[1]
    ELSE words[1] \o <<" ">> \o str_join(Tail(words))

\* line 62: " ".join(title.split()); white space at either end goes, a run
\* of white space inside becomes one space
join_split(s) == str_join(split(s))

\* lines 43-63: lower case, no punctuation but "-", white space normalized
afetch_normalize_title(title) ==
    LET kept == SelectSeq(str_lower(title), LAMBDA c : c \notin Punctuation \ {"-"})
    IN  join_split(kept)

SerpRowTitles == << <<"a", "b">>, <<"C", " ", "d", ".">> >>

SerpCsvs ==
    UNION { { t \in [1..n -> [title : Range(SerpRowTitles), total : {0, 20, 30},
                              found : BOOLEAN]] :
                \A i \in 1..n : t[i].title = SerpRowTitles[i] }
            : n \in 1..MaxRows }

NoCitationsFile == [exists |-> FALSE, total_citations |-> 0, citations |-> 0]

SerpInit ==
    /\ csv_rows \in SerpCsvs
    /\ total_searches_left \in 0..MaxSearches
    /\ rate_limit_reached = FALSE
    /\ requests_made = 0
    /\ articles_to_process = <<>>
    /\ sp_k = 1
    /\ sp_pc = "start"
    /\ sp_site = "none"
    /\ all_citations = 0
    /\ total_citations = 0
    /\ start = 0
    /\ results_jsonl = <<>>
    /\ citations_files = [i \in DOMAIN csv_rows |-> NoCitationsFile]
    /\ sp_run = 1
    /\ sp_cut = {}
    /\ OutsideSerpIdle

\* lines 537-566: the rows whose normalized title is not in the results file
ProcessCsvStart ==
    /\ sp_pc = "start"
    /\ LET existing_data == {afetch_normalize_title(results_jsonl[j].title)
                               : j \in DOMAIN results_jsonl}
           todo == SelectSeq([i \in DOMAIN csv_rows |-> i],
                             LAMBDA i : afetch_normalize_title(csv_rows[i].title)
                                           \notin existing_data)
       IN  /\ articles_to_process' = todo
           /\ sp_pc' = IF todo = <<>> THEN "done" ELSE "row"
    /\ sp_k' = 1
    /\ UNCHANGED <<csv_rows, total_searches_left, rate_limit_reached, requests_made,
                   sp_site, all_citations, total_citations, start, results_jsonl,
                   citations_files, sp_run, sp_cut, outsideSerp>>

\* lines 570-572, 486-487 and 207-216: process_row calls get_article_id,
\* which calls make_api_request for the title
BeginRow ==
    /\ sp_pc = "row"
    /\ sp_site' = "id"
    /\ sp_pc' = "request"
    /\ UNCHANGED <<csv_rows, total_searches_left, rate_limit_reached, requests_made,
                   articles_to_process, sp_k, all_citations, total_citations, start,
                   results_jsonl, citations_files, sp_run, sp_cut, outsideSerp>>

CurrentRow == articles_to_process[sp_k]

\* lines 584-588 and 570: after a row, the loop stops when the rate limit is
\* reached and goes to the next row otherwise
AfterRow(reached) ==
    IF reached \/ sp_k = Len(articles_to_process) THEN "done" ELSE "row"

\* the exception of make_api_request where it was called: get_article_id
\* raises it again (lines 218-222) and process_csv stops (lines 577-580);
\* get_citations writes the citations it has to citations_<id>.json and
\* returns them (lines 396-413, 426)
RateLimitException ==
    IF sp_site = "id"
    THEN /\ sp_pc' = "done"
         /\ UNCHANGED <<citations_files, sp_cut>>
    ELSE /\ citations_files' = [citations_files EXCEPT ![CurrentRow] =
                                   [exists |-> TRUE, total_citations |-> total_citations,
                                    citations |-> all_citations]]
         /\ sp_cut' = sp_cut \cup {CurrentRow}
         /\ sp_pc' = "append"

\* lines 150-151: raise Exception("Rate limit reached")
MakeApiRequestRaises ==
    /\ sp_pc = "request"
    /\ rate_limit_reached
    /\ RateLimitException
    /\ UNCHANGED <<csv_rows, total_searches_left, rate_limit_reached, requests_made,
                   articles_to_process, sp_k, sp_site, all_citations, total_citations, start,
                   results_jsonl, sp_run, outsideSerp>>

\* lines 153-154 and 119-132: the account GET; a status other than 200 is
\* taken as a reached limit
CheckRateLimit ==
    /\ sp_pc = "request"
    /\ ~rate_limit_reached
    /\ \E status_200 \in (IF sp_run = 1 THEN BOOLEAN ELSE {TRUE}) :
          rate_limit_reached' = IF status_200 THEN total_searches_left <= 0 ELSE TRUE
    /\ sp_pc' = "search"
    /\ UNCHANGED <<csv_rows, total_searches_left, requests_made, articles_to_process, sp_k,
                   sp_site, all_citations, total_citations, start, results_jsonl,
                   citations_files, sp_run, sp_cut, outsideSerp>>

\* lines 321-323: the loop of get_citations goes on with a request or ends
AfterPage(total, from) ==
    IF from < Min(total, GoogleLimit)
    THEN sp_site' = "page" /\ sp_pc' = "request"
    ELSE sp_site' = "none" /\ sp_pc' = "append"

\* lines 156-167, and what the caller does with the response.  Without
\* searches left the server answers with an error status and
\* raise_for_status raises (line 162).  get_article_id (lines 225-241,
\* 488-497, 283-304): the article is found or not, and get_citations starts
\* from the citations file.  get_citations: the first request gives
\* total_citations (lines 305-306), a request of the loop the next results
\* (lines 331-386).
SendSearch ==
    /\ sp_pc = "search"
    /\ requests_made' = requests_made + 1
    /\ IF total_searches_left <= 0
       THEN /\ RateLimitException
            /\ UNCHANGED <<total_searches_left, sp_site, all_citations, total_citations, start>>
       ELSE /\ total_searches_left' = total_searches_left - 1
            /\ UNCHANGED <<citations_files, sp_cut>>
            /\ LET row == csv_rows[CurrentRow]
                   file == citations_files[CurrentRow]
               IN  CASE sp_site = "id" /\ ~row.found ->
                            /\ sp_pc' = AfterRow(rate_limit_reached)
                            /\ sp_site' = "none"
                            /\ UNCHANGED <<all_citations, total_citations, start>>
                     [] sp_site = "id" /\ row.found ->
                            /\ all_citations' = file.citations
                            /\ total_citations' = file.total_citations
                            /\ start' = 0
                            /\ IF file.total_citations = 0
                               THEN sp_site' = "first" /\ sp_pc' = "request"
                               ELSE AfterPage(file.total_citations, 0)
                     [] sp_site = "first" ->
                            /\ total_citations' = row.total
                            /\ AfterPage(row.total, start)
                            /\ UNCHANGED <<all_citations, start>>
                     [] sp_site = "page" ->
                            /\ all_citations' = all_citations
                                                  + Min(PageNum, row.total - Min(row.total, start))
                            /\ start' = start + PageNum
                            /\ AfterPage(total_citations, start + PageNum)
                            /\ UNCHANGED total_citations
    /\ sp_k' = IF sp_pc' = "row" THEN sp_k + 1 ELSE sp_k
    /\ UNCHANGED <<csv_rows, rate_limit_reached, articles_to_process, results_jsonl,
                   sp_run, outsideSerp>>

\* lines 498-503 and 573-588: the row is written to serp_citation_results.jsonl
AppendResult ==
    /\ sp_pc = "append"
    /\ results_jsonl' = Append(results_jsonl,
                               [title |-> csv_rows[CurrentRow].title,
                                total_citations |-> total_citations,
                                citations |-> all_citations])
    /\ sp_pc' = AfterRow(rate_limit_reached)
    /\ sp_k' = IF sp_pc' = "row" THEN sp_k + 1 ELSE sp_k
    /\ sp_site' = "none"
    /\ UNCHANGED <<csv_rows, total_searches_left, rate_limit_reached, requests_made,
                   articles_to_process, all_citations, total_citations, start,
                   citations_files, sp_run, sp_cut, outsideSerp>>

\* main, lines 626-650, once more: a new checker (lines 107-117) on the same
\* files, the account having searches again
StartLaterRun ==
    /\ sp_pc = "done"
    /\ sp_run < MaxRuns
    /\ sp_run' = sp_run + 1
    /\ rate_limit_reached' = FALSE
    /\ requests_made' = 0
    /\ total_searches_left' = AmpleSearches
    /\ sp_pc' = "start"
    /\ sp_cut' = {}
    /\ UNCHANGED <<csv_rows, articles_to_process, sp_k, sp_site, all_citations,
                   total_citations, start, results_jsonl, citations_files, outsideSerp>>

SerpNext ==
    \/ ProcessCsvStart
    \/ BeginRow
    \/ MakeApiRequestRaises
    \/ CheckRateLimit
    \/ SendSearch
    \/ AppendResult
    \/ StartLaterRun

SpecSerp == SerpInit /\ [][SerpNext]_vars

\* the coroutine of a run is always resumed, and a later run is started
SpecSerpLive == SpecSerp /\ WF_vars(SerpNext)

\* C25: once rate_limit_reached is set, no step of make_api_request
\* increases requests_made (no search is sent): the call raises.
C25_NoSearchWhileRateLimitReached ==
    [][rate_limit_reached => requests_made' <= requests_made]_vars

\* the rows of the results file for a row of the csv
ResultsOf(i) == {j \in DOMAIN results_jsonl : results_jsonl[j].title = csv_rows[i].title}

\* the results file has the row with all its citations
FetchedWhole(i) ==
    \E j \in ResultsOf(i) : results_jsonl[j].citations >= csv_rows[i].total

\* C26: an article whose citation fetch was cut short by the rate limit in
\* a run is not in serp_citation_results.jsonl at the end of that run, and a
\* later run fetches the citations it lacks: the article gets to be in the
\* file with all its citations.
C26_CutShortIsResumed ==
    /\ [](\A i \in DOMAIN csv_rows : (i \in sp_cut /\ sp_pc = "done") => ResultsOf(i) = {})
    /\ \A i \in 1..MaxRows : (i \in sp_cut) ~> (i \in DOMAIN csv_rows /\ FetchedWhole(i))

(***************************************************************************)
(* data_sources/utils.py, get_author_ids and set_author_ids.  The caller   *)
(* passes its list author_ids; inside set_author_ids the name author_ids   *)
(* is the caller's list until line 325 binds it to a new list.             *)
(***************************************************************************)
MaxNames == 2

AuthorNamePool == <<"n1", "n2">>

AuthorIdEntry(orcidid, google_scholar_id, author_name) ==
    [orcidid |-> orcidid, google_scholar_id |-> google_scholar_id, author_name |-> author_name]

\* lines 218-228: one entry per ORCID id of the article, in sorted order
ArticleOrcidLists == {<<>>, <<"o1">>, <<"o2">>, <<"o1", "o2">>}

\* what get_orcidids_from_author_names finds for a name
OrcidLookups == {<<>>, <<"o1">>, <<"o3", "o1">>}

SetAuthorIdsInit ==
    /\ \E ids \in ArticleOrcidLists :
          caller_author_ids = [k \in DOMAIN ids |-> AuthorIdEntry(ids[k], None, None)]
    /\ \E n \in 1..MaxNames : author_names = SubSeq(AuthorNamePool, 1, n)
    /\ google_scholar_ids \in [Range(AuthorNamePool) -> {None, "g1"}]
    /\ orcid_lookup \in [Range(AuthorNamePool) -> OrcidLookups]
    /\ local_author_ids = <<>>
    /\ ids_rebound = FALSE
    /\ si_k = 1
    /\ si_pc = "loop"
    /\ OutsideIdsIdle

\* list.append through the name author_ids: on the caller's list while the
\* name is bound to it, on the new list afterwards
append_author_id(entry) ==
    IF ids_rebound
    THEN /\ local_author_ids' = Append(local_author_ids, entry)
         /\ UNCHANGED <<caller_author_ids, ids_rebound>>
    ELSE /\ caller_author_ids' = Append(caller_author_ids, entry)
         /\ UNCHANGED <<local_author_ids, ids_rebound>>

\* lines 296-332: one turn of the loop over author_names.  Lines 321-325:
\* filtered_author_ids is empty, the loop over it has no turn, and
\* author_ids is bound to it.
SetAuthorId ==
    /\ si_pc = "loop"
    /\ si_k <= Len(author_names)
    /\ LET author_name == author_names[si_k]
           google_scholar_id == google_scholar_ids[author_name]
           orcid_ids == orcid_lookup[author_name]
       IN  IF orcid_ids = <<>>
           THEN append_author_id(AuthorIdEntry(None, google_scholar_id, author_name))
           ELSE /\ local_author_ids' =
                       <<AuthorIdEntry(orcid_ids[1], google_scholar_id, author_name)>>
                /\ ids_rebound' = TRUE
                /\ UNCHANGED caller_author_ids
    /\ si_k' = si_k + 1
    /\ UNCHANGED <<author_names, google_scholar_ids, orcid_lookup, si_pc, outsideIds>>

\* the loop is over: set_author_ids returns None, get_author_ids line 231
ReturnAuthorIds ==
    /\ si_pc = "loop"
    /\ si_k > Len(author_names)
    /\ si_pc' = "returned"
    /\ UNCHANGED <<caller_author_ids, local_author_ids, ids_rebound, author_names,
                   google_scholar_ids, orcid_lookup, si_k, outsideIds>>

SetAuthorIdsNext ==
    \/ SetAuthorId
    \/ ReturnAuthorIds

SpecSetAuthorIds == SetAuthorIdsInit /\ [][SetAuthorIdsNext]_vars

\* C27: when set_author_ids has returned, for every name of author_names
\* with an ORCID id found the caller's list has exactly one entry with that
\* ORCID id, and the entry carries the name and the Google Scholar id of the
\* name (null when it has none).
C27_OrcidAuthorsAreOneEntry ==
    si_pc = "returned" =>
        \A k \in DOMAIN author_names :
            LET author_name == author_names[k]
                orcid_ids == orcid_lookup[author_name]
            IN  orcid_ids # <<>> =>
                    /\ Cardinality({j \in DOMAIN caller_author_ids :
                                       caller_author_ids[j].orcidid = orcid_ids[1]}) = 1
                    /\ \E j \in DOMAIN caller_author_ids :
                          caller_author_ids[j] =
                              AuthorIdEntry(orcid_ids[1], google_scholar_ids[author_name],
                                            author_name)

====
